---------------------------- MODULE Spec2Model ----------------------------
(***************************************************************************)
(* A model of the scrapers of dwillis/religion-data:                       *)
(*   src/umdata/people_scraper.py        UMDataScraper, scrape_conference  *)
(*   src/mega/scraper.py                 MegachurchScraper                 *)
(*   src/umdata/work_history_scraper.py  WorkHistoryScraper                *)
(*   src/umdata/church_scraper.py        ChurchScraper                     *)
(*   src/umdata/stats.py                 StatsScraper                      *)
(*                                                                         *)
(* The program is sequential: one routine runs at a time.  `unit` names    *)
(* the routine a behaviour follows, `pc` its position, `loc` its local     *)
(* variables (under their names in the source), `inp` what the outside     *)
(* world (the web server, the arguments) has handed to it so far, and      *)
(* `log` the requests and sleeps it has performed, in order.  Every        *)
(* loop of the source is one action per iteration; what the server         *)
(* answers is chosen by \E inside the action.                              *)
(***************************************************************************)
EXTENDS Integers, Sequences, FiniteSets, TLC

VARIABLES unit, pc, loc, inp, log

vars == <<unit, pc, loc, inp, log>>

\* Python's None, where a string is expected
None == "None"
\* Python's None, where a number is expected
NoInt == 0 - 1
\* Python's None, where a record (a dict) is expected
NoDict == [none |-> TRUE]

(***************************************************************************)
(* Bounds of the model.                                                    *)
(***************************************************************************)
\* recordsTotal values the server may report: multiples of half a page
MaxTotalHalves == 5
\* pages the megachurch listing may announce
MaxPages == 3
\* data rows of a table inside a page loop
MaxPageRows == 1
\* pages the next-link loop may fetch when no page cap is given
MaxFollow == 3
\* the longest list of URLs handed to a multi-URL loop
MaxUrls == 3
\* the most rows after the header row in a table of a pastor page
MaxRows == 2
\* the most units (conferences, jurisdictions) of a worklist
MaxUnits == 2

(***************************************************************************)
(* Helpers.                                                                *)
(***************************************************************************)
Last(s) == s[Len(s)]

\* the entries of a log that are requests / sleeps
IsGet(e) == e.op = "get"
IsSleep(e) == e.op = "sleep"
Gets(l) == SelectSeq(l, IsGet)

\* time.sleep(self.delay)
Sleep(l) == Append(l, [op |-> "sleep"])

(***************************************************************************)
(* Strings.  A Python str that the code takes apart is a sequence of its   *)
(* characters; NoStr is None where such a string is expected.              *)
(***************************************************************************)
NoStr == <<"None">>

\* str.isspace of one character
IsSpace(c) == c \in {" ", "\t", "\n"}

\* str.lstrip(), str.rstrip(), str.strip()
RECURSIVE LStrip(_)
LStrip(s) ==
    IF s = <<>> THEN <<>>
    ELSE IF IsSpace(s[1]) THEN LStrip(Tail(s)) ELSE s

RECURSIVE RStrip(_)
RStrip(s) ==
    IF s = <<>> THEN <<>>
    ELSE IF IsSpace(s[Len(s)]) THEN RStrip(SubSeq(s, 1, Len(s) - 1)) ELSE s

Strip(s) == RStrip(LStrip(s))

\* str.lower()
LowerMap ==
    ("A" :> "a") @@ ("B" :> "b") @@ ("C" :> "c") @@ ("D" :> "d") @@
    ("E" :> "e") @@ ("F" :> "f") @@ ("G" :> "g") @@ ("H" :> "h") @@
    ("I" :> "i") @@ ("J" :> "j") @@ ("K" :> "k") @@ ("L" :> "l") @@
    ("M" :> "m") @@ ("N" :> "n") @@ ("O" :> "o") @@ ("P" :> "p") @@
    ("Q" :> "q") @@ ("R" :> "r") @@ ("S" :> "s") @@ ("T" :> "t") @@
    ("U" :> "u") @@ ("V" :> "v") @@ ("W" :> "w") @@ ("X" :> "x") @@
    ("Y" :> "y") @@ ("Z" :> "z")

LowerChar(c) == IF c \in DOMAIN LowerMap THEN LowerMap[c] ELSE c

Lower(s) == [i \in 1..Len(s) |-> LowerChar(s[i])]

\* str.startswith(prefix)
StartsWith(s, prefix) ==
    Len(s) >= Len(prefix) /\ SubSeq(s, 1, Len(prefix)) = prefix

\* sub in s
Contains(s, sub) ==
    \E i \in 1..(Len(s) - Len(sub) + 1) : SubSeq(s, i, i + Len(sub) - 1) = sub

\* str.split(sep) for a one-character sep: the pieces of s from index `from`
RECURSIVE SplitFrom(_, _, _, _)
SplitFrom(s, sep, from, i) ==
    IF i > Len(s) THEN <<SubSeq(s, from, Len(s))>>
    ELSE IF s[i] = sep
         THEN <<SubSeq(s, from, i - 1)>> \o SplitFrom(s, sep, i + 1, i + 1)
         ELSE SplitFrom(s, sep, from, i + 1)

Split(s, sep) == SplitFrom(s, sep, 1, 1)

\* the first index >= i of s that holds no white space (Len(s) + 1: none)
RECURSIVE SkipSpaces(_, _)
SkipSpaces(s, i) ==
    IF i <= Len(s) /\ IsSpace(s[i]) THEN SkipSpaces(s, i + 1) ELSE i

\* re.split(r'\s*-\s*', s): scanning from the left, a separator starts at the
\* first index i from which white space leads to a '-'; it takes that white
\* space, the '-' and the white space after it
RECURSIVE ReSplitFrom(_, _, _)
ReSplitFrom(s, from, i) ==
    IF i > Len(s) THEN <<SubSeq(s, from, Len(s))>>
    ELSE LET j == SkipSpaces(s, i)
         IN  IF j <= Len(s) /\ s[j] = "-"
             THEN LET k == SkipSpaces(s, j + 1)
                  IN  <<SubSeq(s, from, i - 1)>> \o ReSplitFrom(s, k, k)
             ELSE ReSplitFrom(s, from, i + 1)

ReSplitDash(s) == ReSplitFrom(s, 1, 1)

\* str.zfill(2)
ZFill2(s) ==
    IF Len(s) >= 2 THEN s
    ELSE IF s = <<>> THEN <<"0", "0">>
    ELSE IF s[1] \in {"+", "-"} THEN <<s[1], "0">>
    ELSE <<"0", s[1]>>

\* str.isdigit of one character
IsDigit(c) == c \in {"0", "1", "2", "3", "4", "5", "6", "7", "8", "9"}

\* the first index >= i of s that holds no digit (Len(s) + 1: none)
RECURSIVE SkipDigits(_, _)
SkipDigits(s, i) ==
    IF i <= Len(s) /\ IsDigit(s[i]) THEN SkipDigits(s, i + 1) ELSE i

\* min of a non-empty set of numbers
SetMin(S) == CHOOSE m \in S : \A x \in S : m <= x

\* re.search(key + r'(\d+)', s).group(1), NoStr without a match: the digits
\* after the first occurrence of key that is followed by a digit
SearchDigitsAfter(s, key) ==
    LET n == Len(key)
        at == {i \in 1..Len(s) :
                  /\ i + n <= Len(s)
                  /\ SubSeq(s, i, i + n - 1) = key
                  /\ IsDigit(s[i + n])}
    IN  IF at = {} THEN NoStr
        ELSE LET d == SetMin(at) + n
             IN  SubSeq(s, d, SkipDigits(s, d) - 1)

\* ' '.join(s.split()): white space runs collapsed, none at the ends
RECURSIVE JoinWords(_)
JoinWords(s) ==
    LET t == LStrip(s)
    IN  IF t = <<>> THEN <<>>
        ELSE LET e == CHOOSE i \in 1..Len(t) :
                        /\ \A j \in 1..i : ~IsSpace(t[j])
                        /\ (i = Len(t) \/ IsSpace(t[i + 1]))
                 rest == JoinWords(SubSeq(t, e + 1, Len(t)))
             IN  SubSeq(t, 1, e) \o (IF rest = <<>> THEN <<>> ELSE <<" ">> \o rest)

\* a dict: a function from its keys; d[k] = v
Put(d, k, v) == [x \in (DOMAIN d) \cup {k} |-> IF x = k THEN v ELSE d[x]]

(***************************************************************************)
(* The string literals of the source, one record for each source file      *)
(***************************************************************************)
\* work_history_scraper.py
WorkHistoryStr ==
    [present |-> \* 'present'
        <<"p", "r", "e", "s", "e", "n", "t">>,
     umdata |-> \* 'https://www.umdata.org'
        <<"h", "t", "t", "p", "s", ":", "/", "/", "w", "w", "w", ".", "u", "m", "d", "a", "t", "a", ".", "o", "r", "g">>,
     http |-> \* 'http'
        <<"h", "t", "t", "p">>,
     url_suffix |-> \* '_URL'
        <<"_", "U", "R", "L">>,
     column |-> \* 'Column_'
        <<"C", "o", "l", "u", "m", "n", "_">>,
     view_charts |-> \* 'View Charts'
        <<"V", "i", "e", "w", " ", "C", "h", "a", "r", "t", "s">>,
     dates |-> \* 'Dates'
        <<"D", "a", "t", "e", "s">>,
     start_date |-> \* 'StartDate'
        <<"S", "t", "a", "r", "t", "D", "a", "t", "e">>,
     end_date |-> \* 'EndDate'
        <<"E", "n", "d", "D", "a", "t", "e">>,
     pastor_eq |-> \* 'pastor='
        <<"p", "a", "s", "t", "o", "r", "=">>,
     gcfa_id |-> \* 'GCFAId'
        <<"G", "C", "F", "A", "I", "d">>,
     url |-> \* 'URL'
        <<"U", "R", "L">>,
     name |-> \* 'Name'
        <<"N", "a", "m", "e">>,
     work_history |-> \* 'WorkHistory'
        <<"W", "o", "r", "k", "H", "i", "s", "t", "o", "r", "y">>,
     pastor_url |-> \* 'PastorURL'
        <<"P", "a", "s", "t", "o", "r", "U", "R", "L">>]

\* people_scraper.py
PeopleStr ==
    [ajax_colon |-> \* 'ajax:'
        <<"a", "j", "a", "x", ":">>,
     url_colon |-> \* 'url:'
        <<"u", "r", "l", ":">>,
     data_table |-> \* 'DataTable'
        <<"D", "a", "t", "a", "T", "a", "b", "l", "e">>,
     people |-> \* 'people'
        <<"p", "e", "o", "p", "l", "e">>,
     people_ajax |-> \* 'https://www.umdata.org/people-ajax'
        <<"h", "t", "t", "p", "s", ":", "/", "/", "w", "w", "w", ".", "u", "m", "d", "a", "t", "a", ".", "o", "r", "g", "/", "p", "e", "o", "p", "l", "e", "-", "a", "j", "a", "x">>,
     unknown |-> \* 'Unknown'
        <<"U", "n", "k", "n", "o", "w", "n">>,
     conf_url |-> \* 'https://www.umdata.org/people?confType=us&lastName=&firstName=&middleName=&gcfaId=&jur=all&conf='
        <<"h", "t", "t", "p", "s", ":", "/", "/", "w", "w", "w", ".", "u", "m", "d", "a", "t", "a", ".", "o", "r", "g", "/", "p", "e", "o", "p", "l", "e", "?", "c", "o", "n", "f", "T", "y", "p", "e", "=", "u", "s", "&", "l", "a", "s", "t", "N", "a", "m", "e", "=", "&", "f", "i", "r", "s", "t", "N", "a", "m", "e", "=", "&", "m", "i", "d", "d", "l", "e", "N", "a", "m", "e", "=", "&", "g", "c", "f", "a", "I", "d", "=", "&", "j", "u", "r", "=", "a", "l", "l", "&", "c", "o", "n", "f", "=">>,
     historic |-> \* '&historic=true'
        <<"&", "h", "i", "s", "t", "o", "r", "i", "c", "=", "t", "r", "u", "e">>,
     gcfa_id |-> \* 'GCFAId'
        <<"G", "C", "F", "A", "I", "d">>,
     url |-> \* 'URL'
        <<"U", "R", "L">>,
     label |-> \* 'label'
        <<"l", "a", "b", "e", "l">>,
     name |-> \* 'Name'
        <<"N", "a", "m", "e">>,
     pastor |-> \* 'https://www.umdata.org/pastor?pastor='
        <<"h", "t", "t", "p", "s", ":", "/", "/", "w", "w", "w", ".", "u", "m", "d", "a", "t", "a", ".", "o", "r", "g", "/", "p", "a", "s", "t", "o", "r", "?", "p", "a", "s", "t", "o", "r", "=">>]

\* church_scraper.py
ChurchStr ==
    [church_eq |-> \* 'church='
        <<"c", "h", "u", "r", "c", "h", "=">>,
     suffix |-> \* ' - UMData'
        <<" ", "-", " ", "U", "M", "D", "a", "t", "a">>,
     quick_facts |-> \* 'quick facts'
        <<"q", "u", "i", "c", "k", " ", "f", "a", "c", "t", "s">>,
     church_id |-> \* 'ChurchId'
        <<"C", "h", "u", "r", "c", "h", "I", "d">>,
     url |-> \* 'URL'
        <<"U", "R", "L">>,
     church_name |-> \* 'ChurchName'
        <<"C", "h", "u", "r", "c", "h", "N", "a", "m", "e">>,
     quick_facts_year |-> \* 'QuickFactsYear'
        <<"Q", "u", "i", "c", "k", "F", "a", "c", "t", "s", "Y", "e", "a", "r">>,
     hci |-> \* 'HCI_DataAvailable'
        <<"H", "C", "I", "_", "D", "a", "t", "a", "A", "v", "a", "i", "l", "a", "b", "l", "e">>,
     error |-> \* 'Error'
        <<"E", "r", "r", "o", "r">>,
     work_history |-> \* 'WorkHistory'
        <<"W", "o", "r", "k", "H", "i", "s", "t", "o", "r", "y">>,
     appointment_url |-> \* 'Appointment_URL'
        <<"A", "p", "p", "o", "i", "n", "t", "m", "e", "n", "t", "_", "U", "R", "L">>,
     church_q |-> \* 'church?'
        <<"c", "h", "u", "r", "c", "h", "?">>]

\* mega/scraper.py
MegaStr ==
    [church_name |-> \* 'church_name'
        <<"c", "h", "u", "r", "c", "h", "_", "n", "a", "m", "e">>,
     church_url |-> \* 'church_url'
        <<"c", "h", "u", "r", "c", "h", "_", "u", "r", "l">>,
     city |-> \* 'city'
        <<"c", "i", "t", "y">>,
     state |-> \* 'state'
        <<"s", "t", "a", "t", "e">>,
     size |-> \* 'size'
        <<"s", "i", "z", "e">>,
     denomination |-> \* 'denomination'
        <<"d", "e", "n", "o", "m", "i", "n", "a", "t", "i", "o", "n">>]

\* stats.py
StatsStr ==
    [jurisdictions |-> \* 'Jurisdictions'
        <<"J", "u", "r", "i", "s", "d", "i", "c", "t", "i", "o", "n", "s">>,
     base_url |-> \* 'https://www.umdata.org'
        <<"h", "t", "t", "p", "s", ":", "/", "/", "w", "w", "w", ".", "u", "m", "d", "a", "t", "a", ".", "o", "r", "g">>,
     http |-> \* 'http'
        <<"h", "t", "t", "p">>]

(***************************************************************************)
(* WorkHistoryScraper._convert_to_iso_date, _parse_dates                   *)
(* (work_history_scraper.py 95-150)                                        *)
(***************************************************************************)
\* _convert_to_iso_date (lines 95-118)
_convert_to_iso_date(date_str) ==
    IF date_str = <<>> \/ date_str = NoStr THEN NoStr
    ELSE LET parts == Split(date_str, "/")
         IN  IF Len(parts) = 3
             THEN Strip(parts[3]) \o <<"-">> \o ZFill2(Strip(parts[1]))
                    \o <<"-">> \o ZFill2(Strip(parts[2]))
             ELSE date_str


\* _parse_dates with the test of line 144 comparing end_date itself
\* (no .lower()) against 'Present'
ParseDatesCaseSensitive(date_string) ==
    IF date_string = <<>> THEN <<NoStr, NoStr>>
    ELSE LET parts == ReSplitDash(date_string)
         IN  IF Len(parts) = 1
             THEN <<_convert_to_iso_date(Strip(parts[1])), NoStr>>
             ELSE IF Len(parts) = 2
             THEN LET start_date == Strip(parts[1])
                      end_date == Strip(parts[2])
                  IN  IF end_date = <<"P", "r", "e", "s", "e", "n", "t">>
                      THEN <<_convert_to_iso_date(start_date), NoStr>>
                      ELSE <<_convert_to_iso_date(start_date),
                             _convert_to_iso_date(end_date)>>
             ELSE <<date_string, NoStr>>

\* _parse_dates (lines 120-150): the tuple (start_date, end_date)
_parse_dates(date_string) ==
    IF date_string = <<>> THEN <<NoStr, NoStr>>
    ELSE LET parts == ReSplitDash(date_string)
         IN  IF Len(parts) = 1
             THEN <<_convert_to_iso_date(Strip(parts[1])), NoStr>>
             ELSE IF Len(parts) = 2
             THEN LET start_date == Strip(parts[1])
                      end_date == Strip(parts[2])
                  IN  IF Lower(end_date) = WorkHistoryStr.present
                      THEN <<_convert_to_iso_date(start_date), NoStr>>
                      ELSE <<_convert_to_iso_date(start_date),
                             _convert_to_iso_date(end_date)>>
             ELSE <<date_string, NoStr>>

\* the date strings _parse_dates is applied to: a first token, a separator,
\* a second token and a tail
DateTokens ==
    { <<>>, <<"7", "/", "1", "/", "2", "0", "1", "8">>, <<"1", "/", "1", "/", "2", "0", "1", "5">>, <<" ", "1", "2", "/", "2", "5", "/", "1", "9", "9", "9">>, <<"7", "/", "2", "0", "1", "8">>, <<"x">> }
DateSeparators == { <<"-">>, <<" ", "-">>, <<" ", "-", " ">>, <<"-", " ">> }
DateEnds ==
    { <<>>, <<"P", "r", "e", "s", "e", "n", "t">>, <<"p", "r", "e", "s", "e", "n", "t">>, <<"P", "R", "E", "S", "E", "N", "T">>, <<"P", "r", "e", "s", "e", "n", "t", "l", "y">>, <<"6", "/", "3", "0", "/", "2", "0", "1", "8">>, <<"1", "/", "2", "/", "0", "3", " ">> }
DateTails == { <<>>, <<" ">>, <<"-">>, <<" ", "-", " ", "2", "0", "2", "0">> }

DateStrings ==
    {tok \o tail : tok \in DateTokens, tail \in {<<>>, <<" ">>}}
      \cup {tok \o sep \o end \o tail :
              tok \in DateTokens, sep \in DateSeparators,
              end \in DateEnds, tail \in DateTails}

DatesInit ==
    /\ unit = "_parse_dates"
    /\ pc = "call"
    /\ inp \in DateStrings
    /\ loc = <<>>
    /\ log = <<>>

\* start_date, end_date = self._parse_dates(text)
ParseDates ==
    /\ unit = "_parse_dates"
    /\ pc = "call"
    /\ loc' = _parse_dates(inp)
    /\ pc' = "done"
    /\ UNCHANGED <<unit, inp, log>>

SpecDates == DatesInit /\ [][ParseDates]_vars

(***************************************************************************)
(* UMDataScraper.scrape_all_pages_ajax  (people_scraper.py 156-210)        *)
(***************************************************************************)
\* records_per_page: int = 100
records_per_page == 100

HalfPage == records_per_page \div 2

\* what a response of the DataTables endpoint may carry
AjaxSizes == {0, HalfPage, records_per_page, records_per_page + HalfPage}
AjaxTotals == {k * HalfPage : k \in 0..MaxTotalHalves}

\* data['data'] of a response to a request at offset s carrying n records:
\* the records are identified by their offset on the server
AjaxRecords(s, n) == [i \in 1..n |-> s + i - 1]

\* params = {'draw': page, 'start': page, 'length': records_per_page}
AjaxParamsPageAsStart ==
    [op |-> "get", draw |-> loc.page, start |-> loc.page,
     length |-> records_per_page]

\* params = {'draw': page, 'start': start, 'length': records_per_page}
AjaxParams == [op |-> "get", draw |-> loc.page, start |-> loc.start,
               length |-> records_per_page]

\* lines 167-169: the locals of scrape_all_pages_ajax
AjaxLocals == [all_records |-> <<>>, start |-> 0, page |-> 1]

AjaxInit ==
    /\ unit = "ajax"
    /\ pc = "loop"
    /\ loc = AjaxLocals
    /\ inp = <<>>
    /\ log = <<>>

\* the test of line 195 without its  len(records) == 0  clause
AjaxGotAllNoEmptyTest(start, n, total_records) == start + n >= total_records

\* the test that ends the loop after a page of records (line 195)
AjaxGotAll(start, n, total_records) == start + n >= total_records \/ n = 0

\* start += len(records)
AjaxNextStartByCount(start, n) == start + n

\* start += records_per_page (line 205)
AjaxNextStart(start, n) == start + records_per_page

\* one iteration whose response holds 'data': n records, recordsTotal = total
AjaxPage(n, total) ==
    LET records == AjaxRecords(loc.start, n)
        all == loc.all_records \o records
    IN  /\ inp' = Append(inp, [kind |-> "data", n |-> n, total |-> total])
        /\ IF AjaxGotAll(loc.start, n, total)
           THEN /\ pc' = "done"
                /\ loc' = [loc EXCEPT !.all_records = all]
                /\ log' = Append(log, AjaxParams)
           ELSE /\ pc' = "loop"
                /\ loc' = [loc EXCEPT !.all_records = all,
                                      !.start = AjaxNextStart(loc.start, n),
                                      !.page = loc.page + 1]
                /\ log' = Sleep(Append(log, AjaxParams))

\* one iteration whose response has no 'data' key (line 197-199)
AjaxNoData ==
    /\ inp' = Append(inp, [kind |-> "nodata", n |-> 0, total |-> 0])
    /\ pc' = "done"
    /\ log' = Append(log, AjaxParams)
    /\ UNCHANGED loc

\* the same iteration without the handler of line 201: the exception leaves
\* scrape_all_pages_ajax
AjaxErrorRaises ==
    /\ inp' = Append(inp, [kind |-> "error", n |-> 0, total |-> 0])
    /\ pc' = "raised"
    /\ log' = Append(log, AjaxParams)
    /\ UNCHANGED loc

\* one iteration whose request or JSON decoding raises (line 201-203)
AjaxError ==
    /\ inp' = Append(inp, [kind |-> "error", n |-> 0, total |-> 0])
    /\ pc' = "done"
    /\ log' = Append(log, AjaxParams)
    /\ UNCHANGED loc

\* one iteration whose response holds 'data' and a recordsTotal that is not
\* a number (a JSON string or null): line 189 has extended all_records when
\* the comparison of line 195 raises TypeError, which line 201 catches
AjaxBadTotal(n) ==
    /\ inp' = Append(inp, [kind |-> "badtotal", n |-> n, total |-> 0])
    /\ pc' = "done"
    /\ loc' = [loc EXCEPT !.all_records = @ \o AjaxRecords(loc.start, n)]
    /\ log' = Append(log, AjaxParams)

AjaxIteration ==
    /\ unit = "ajax"
    /\ pc = "loop"
    /\ \/ \E n \in AjaxSizes, total \in AjaxTotals : AjaxPage(n, total)
       \/ AjaxNoData
       \/ AjaxError
       \/ \E n \in AjaxSizes : AjaxBadTotal(n)
    /\ UNCHANGED unit

AjaxNext == AjaxIteration

SpecAjax == AjaxInit /\ [][AjaxNext]_vars

(***************************************************************************)
(* MegachurchScraper  (mega/scraper.py)                                    *)
(***************************************************************************)
\* A table row <tr>: the text of the cell carrying each data-label, None
\* when the row has no such cell.  href is the link inside the Church Name
\* cell, None when there is none.  A City cell that holds no string at all
\* has city = "".
MegaRow(name, href, city, rest) ==
    [name |-> name, href |-> href, city |-> city,
     state |-> rest, size |-> rest, denom |-> rest]

\* the header row: <th> cells only, no cell with a data-label
MegaHeader == MegaRow(None, None, None, None)

\* a cell's text, '' when the cell is absent (lines 146-153, 173-183)
CellOr(text) == IF text = None THEN "" ELSE text

\* _extract_church_info (lines 135-193): a church, or None
\*   164  no Church Name cell                       -> None
\*   176  list(city_cell.stripped_strings)[0] of a cell without strings
\*        raises IndexError, caught at 191          -> None
\*   186  an empty church_name                      -> None
_extract_church_info(row) ==
    IF row.name = None THEN NoDict
    ELSE IF row.city = "" THEN NoDict
    ELSE IF row.name = "" THEN NoDict
    ELSE [church_name |-> row.name,
          church_url |-> CellOr(row.href),
          city |-> CellOr(row.city),
          state |-> CellOr(row.state),
          size |-> CellOr(row.size),
          denomination |-> CellOr(row.denom)]

\* the loop of lines 123-126 over rows i..Len(rows)
RECURSIVE MegaChurches(_, _)
MegaChurches(rows, i) ==
    IF i > Len(rows) THEN <<>>
    ELSE LET church == _extract_church_info(rows[i])
         IN  (IF church /= NoDict THEN <<church>> ELSE <<>>)
               \o MegaChurches(rows, i + 1)

\* table.find_all('tr')[1:]
SkipHeader(trs) == IF Len(trs) <= 1 THEN <<>> ELSE SubSeq(trs, 2, Len(trs))

\* scrape_page (lines 94-133) on a response:
\*   [kind |-> "error"]              the GET or the parse raises  -> []
\*   [kind |-> "notable"]            no <table> in the page       -> []
\*   [kind |-> "table", trs |-> ..]  the <tr> rows of the first table
scrape_page(resp) ==
    IF resp.kind = "error" THEN <<>>
    ELSE IF resp.kind = "notable" THEN <<>>
    ELSE MegaChurches(SkipHeader(resp.trs), 1)

\* get_total_pages (lines 34-92) on the response to the page-count request.
\* raw, text, div: the M of "Page N of M" found in the raw HTML, in the
\* parsed text, in the pagination div (NoInt: no match); links: the numerals
\* among the 'page-numbers' links.
SetMax(S) == CHOOSE m \in S : \A x \in S : x <= m

\* the same searches with the page links asked before the pagination div
GetTotalPagesLinksFirst(resp) ==
    IF resp.kind = "error" THEN 1
    ELSE IF resp.raw /= NoInt THEN resp.raw
    ELSE IF resp.text /= NoInt THEN resp.text
    ELSE IF resp.links /= {} THEN SetMax(resp.links)
    ELSE IF resp.div /= NoInt THEN resp.div
    ELSE 1

get_total_pages(resp) ==
    IF resp.kind = "error" THEN 1
    ELSE IF resp.raw /= NoInt THEN resp.raw
    ELSE IF resp.text /= NoInt THEN resp.text
    ELSE IF resp.div /= NoInt THEN resp.div
    ELSE IF resp.links /= {} THEN SetMax(resp.links)
    ELSE 1

\* all sequences over S of length at most n
SeqUpTo(S, n) == UNION {[1..k -> S] : k \in 0..n}

\* the rows a listing page may hold inside the page loop
MegaPageRowSet ==
    { MegaRow("A", "http://a", "Rome", "MD"),
      MegaRow("B", None, None, None),
      MegaRow("", None, "Rome", "MD"),
      MegaHeader }

MegaPageResponses ==
    {[kind |-> "error"], [kind |-> "notable"]}
      \cup {[kind |-> "table", trs |-> <<MegaHeader>> \o rows] :
                rows \in SeqUpTo(MegaPageRowSet, MaxPageRows)}

\* responses to the page-count request
MegaCountResponses ==
    {[kind |-> "error"]}
      \cup {[kind |-> "ok", raw |-> m, text |-> NoInt, div |-> NoInt, links |-> {}] :
                m \in 0..MaxPages}
      \cup {[kind |-> "ok", raw |-> NoInt, text |-> m, div |-> d, links |-> l] :
                m \in {NoInt, MaxPages}, d \in {NoInt, 2}, l \in {{}, {1, 2}}}

MegaInit ==
    /\ unit = "mega"
    /\ pc = "count"
    /\ loc = [all_churches |-> <<>>, total_pages |-> 0, page_num |-> 0]
    /\ inp = <<>>
    /\ log = <<>>

\* the same call followed by a loop over range(0, total_pages + 1)
MegaGetTotalPagesFromZero ==
    /\ unit = "mega"
    /\ pc = "count"
    /\ \E resp \in MegaCountResponses :
          LET total_pages == get_total_pages(resp)
          IN  /\ loc' = [loc EXCEPT !.total_pages = total_pages, !.page_num = 0]
              /\ pc' = IF total_pages >= 1 THEN "loop" ELSE "done"
    /\ log' = Append(log, [op |-> "get", what |-> "count"])
    /\ UNCHANGED <<unit, inp>>

\* total_pages = self.get_total_pages() (line 202)
MegaGetTotalPages ==
    /\ unit = "mega"
    /\ pc = "count"
    /\ \E resp \in MegaCountResponses :
          LET total_pages == get_total_pages(resp)
          IN  /\ loc' = [loc EXCEPT !.total_pages = total_pages, !.page_num = 1]
              /\ pc' = IF total_pages >= 1 THEN "loop" ELSE "done"
    /\ log' = Append(log, [op |-> "get", what |-> "count"])
    /\ UNCHANGED <<unit, inp>>

\* the sleep of lines 210-211
MegaSleep(page_num, total_pages) == page_num < total_pages

\* one iteration of the loop of lines 205-211
MegaPage ==
    /\ unit = "mega"
    /\ pc = "loop"
    /\ \E resp \in MegaPageResponses :
          /\ inp' = Append(inp, resp)
          /\ loc' = [loc EXCEPT !.all_churches = @ \o scrape_page(resp),
                                !.page_num = @ + 1]
    /\ log' = LET got == Append(log, [op |-> "get", what |-> "page",
                                                   page |-> loc.page_num])
              IN  IF MegaSleep(loc.page_num, loc.total_pages)
                  THEN Sleep(got) ELSE got
    /\ pc' = IF loc.page_num < loc.total_pages THEN "loop" ELSE "done"
    /\ UNCHANGED unit

MegaNext == MegaGetTotalPages \/ MegaPage

SpecMega == MegaInit /\ [][MegaNext]_vars

\* the offset loop and the megachurch page loop
PagingInit == AjaxInit \/ MegaInit
PagingNext == AjaxNext \/ MegaNext
SpecPaging == PagingInit /\ [][PagingNext]_vars

(***************************************************************************)
(* HTML tables as BeautifulSoup presents them to the header-keyed          *)
(* extractors (people_scraper.py 125-154, work_history_scraper.py 152-223) *)
(*   a cell  <td>/<th>:  [text, href]   href = None without a link         *)
(*   a row   <tr>:       a sequence of cells                               *)
(*   a table:  [thead, has_tbody, tbody, loose]                            *)
(*       thead     the <tr> rows inside <thead>                            *)
(*       has_tbody whether the table has a <tbody>                         *)
(*       tbody     the <tr> rows inside the <tbody>                        *)
(*       loose     the <tr> rows directly under <table>                    *)
(***************************************************************************)
Cell(text, href) == [text |-> text, href |-> href]

\* headers = [th.get_text(strip=True) for th in header_row.find_all(...)]
TableHeaders(table) ==
    IF table.thead = <<>> THEN <<>>
    ELSE [i \in 1..Len(table.thead[1]) |-> table.thead[1][i].text]

\* f"Column_{i}" (i counts from 0)
ColumnNames == <<"Column_0", "Column_1", "Column_2", "Column_3">>

\* key = headers[i] if i < len(headers) else f"Column_{i}", for the i-th
\* cell counted from 1
HeaderName(headers, i) ==
    IF i <= Len(headers) THEN headers[i] ELSE ColumnNames[i]

\* the dict built by  for i, cell in enumerate(cells): row_dict[key] = cell
\* (a later cell under the same key replaces the earlier one)
TextDict(headers, cells) ==
    LET keys == {HeaderName(headers, i) : i \in 1..Len(cells)}
        last(k) == CHOOSE i \in 1..Len(cells) :
                      /\ HeaderName(headers, i) = k
                      /\ \A j \in 1..Len(cells) :
                            HeaderName(headers, j) = k => j <= i
    IN  [k \in keys |-> cells[last(k)].text]

\* UMDataScraper._scrape_html_table (people_scraper.py 125-154) on the
\* first table of the page; rows i..Len of the <tbody>
RECURSIVE HtmlTableRows(_, _, _)
HtmlTableRows(headers, trs, i) ==
    IF i > Len(trs) THEN <<>>
    ELSE (IF trs[i] /= <<>> THEN <<TextDict(headers, trs[i])>> ELSE <<>>)
           \o HtmlTableRows(headers, trs, i + 1)

\* page.has_table: whether soup.find('table') finds one
_scrape_html_table(page) ==
    IF ~page.has_table THEN <<>>
    ELSE IF ~page.table.has_tbody THEN <<>>
    ELSE HtmlTableRows(TableHeaders(page.table), page.table.tbody, 1)

(***************************************************************************)
(* UMDataScraper._find_next_page_link  (people_scraper.py 264-278)         *)
(* What the function reads of a page:                                      *)
(*   page.paginate  whether a div.dataTables_paginate exists               *)
(*   page.button    the <a class="paginate_button next"> inside it,        *)
(*                  [disabled, href], or NoDict                            *)
(*   page.next_a    the href of the first <a> of the document whose        *)
(*                  string matches Next|»|> (Absent: no such <a>;          *)
(*                  NoStr: it has no href)                                 *)
(* URLs and hrefs are strings of characters.                               *)
(***************************************************************************)
Absent == <<"absent">>

_find_next_page_link(page) ==
    IF page.paginate /\ page.button /= NoDict /\ ~page.button.disabled
    THEN page.button.href
    ELSE IF page.next_a /= Absent THEN page.next_a
    ELSE NoStr

\* if not next_link (line 246): None and '' both end the loop
NoLink(next_link) == next_link = NoStr \/ next_link = <<>>

\* urljoin(self.base_url, next_link) (line 252); the hrefs of the model are
\* absolute URLs, which urljoin returns as they are
HtmlJoin(base_url, next_link) == next_link

\* the URLs of the site
HtmlUrls == { <<"h", "t", "t", "p", ":", "/", "/", "s", "/", "1">>,
              <<"h", "t", "t", "p", ":", "/", "/", "s", "/", "2">> }

\* an href whose host opens a bracket that is never closed
HtmlBadHref == <<"h", "t", "t", "p", ":", "/", "/", "[">>

HtmlHrefs == HtmlUrls \cup {NoStr, <<>>, HtmlBadHref}

\* urljoin(self.base_url, next_link) (line 252) raises ValueError("Invalid
\* IPv6 URL") on a link with one of the brackets and not the other
HtmlJoinRaises(next_link) ==
    LET has(c) == \E i \in 1..Len(next_link) : next_link[i] = c
    IN  has("[") /= has("]")

\* tables of the pages of the site inside the next-link loop
HtmlPageTables ==
    {[thead |-> <<<<Cell("Name", None)>>>>, has_tbody |-> TRUE,
      tbody |-> rows, loose |-> <<>>] :
        rows \in SeqUpTo({<<Cell("A", None)>>, <<Cell("", None)>>}, MaxPageRows)}

HtmlPages ==
    {[kind |-> "page", has_table |-> TRUE, table |-> t,
      paginate |-> TRUE, button |-> [disabled |-> d, href |-> h],
      next_a |-> Absent] :
        t \in HtmlPageTables, d \in BOOLEAN, h \in HtmlHrefs}
    \cup
    {[kind |-> "page", has_table |-> FALSE, table |-> NoDict,
      paginate |-> FALSE, button |-> NoDict, next_a |-> a] :
        a \in HtmlHrefs \cup {Absent}}
    \cup
    \* a disabled next button that reads "Next": it is itself the first <a>
    \* of the document whose string matches Next|>>|>
    {[kind |-> "page", has_table |-> TRUE,
      table |-> [thead |-> <<<<Cell("Name", None)>>>>, has_tbody |-> TRUE,
                 tbody |-> <<>>, loose |-> <<>>],
      paginate |-> TRUE, button |-> [disabled |-> TRUE, href |-> h],
      next_a |-> h] :
        h \in HtmlUrls \cup {NoStr}}

\* self.base_url of the scraper whose next-link loop is run on its own
HtmlBaseUrl == <<"h", "t", "t", "p", ":", "/", "/", "s", "/", "1">>

\* lines 222-224: the locals of scrape_all_pages_html(max_pages)
HtmlLocals(base_url, max_pages) ==
    [all_records |-> <<>>, page |-> 1, current_url |-> base_url,
     max_pages |-> max_pages]

\* scrape_all_pages_html(max_pages) (people_scraper.py 212-262)
HtmlInit ==
    /\ unit = "html"
    /\ pc = "loop"
    /\ \E max_pages \in {NoInt} \cup (0..2) :
          loc = HtmlLocals(HtmlBaseUrl, max_pages)
    /\ inp = <<>>
    /\ log = <<>>

\* if max_pages and page > max_pages (line 229)
HtmlCapped(max_pages, page) ==
    max_pages /= NoInt /\ max_pages /= 0 /\ page > max_pages

\* the loop test of lines 229-230 ends the loop
HtmlCapBreak ==
    /\ unit = "html"
    /\ pc = "loop"
    /\ HtmlCapped(loc.max_pages, loc.page)
    /\ pc' = "done"
    /\ UNCHANGED <<unit, loc, inp, log>>

HtmlGet == [op |-> "get", url |-> loc.current_url]

\* one iteration: the GET or the parsing raises (lines 254-256)
HtmlError ==
    /\ inp' = Append(inp, [kind |-> "error"])
    /\ log' = Append(log, HtmlGet)
    /\ pc' = "done"
    /\ UNCHANGED loc

\* one iteration on a page that was fetched and parsed (lines 235-259)
HtmlPage(page) ==
    LET records == _scrape_html_table(page)
        next_link == _find_next_page_link(page)
    IN  /\ inp' = Append(inp, page)
        /\ IF NoLink(next_link)
           THEN /\ loc' = [loc EXCEPT !.all_records = @ \o records]
                /\ log' = Append(log, HtmlGet)
                /\ pc' = "done"
           ELSE IF HtmlJoinRaises(next_link)
           THEN \* line 238 has extended all_records when line 252 raises
                /\ loc' = [loc EXCEPT !.all_records = @ \o records]
                /\ log' = Append(log, HtmlGet)
                /\ pc' = "done"
           ELSE /\ loc' = [loc EXCEPT !.all_records = @ \o records,
                                      !.current_url = HtmlJoin(@, next_link),
                                      !.page = @ + 1]
                /\ log' = Sleep(Append(log, HtmlGet))
                /\ pc' = "loop"

HtmlIteration ==
    /\ unit = "html"
    /\ pc = "loop"
    /\ ~HtmlCapped(loc.max_pages, loc.page)
    /\ loc.page <= MaxFollow
    /\ \/ HtmlError
       \/ \E page \in HtmlPages : HtmlPage(page)
    /\ UNCHANGED unit

HtmlNext == HtmlCapBreak \/ HtmlIteration

SpecHtml == HtmlInit /\ [][HtmlNext]_vars

(***************************************************************************)
(* UMDataScraper.scrape  (people_scraper.py 280-303)                       *)
(* The initial page is the sequence of its <script> elements, each         *)
(* [has_string, string]: script.string, a string of characters.  The call  *)
(* of a strategy is logged as [op |-> "call", strategy |-> ...], and the   *)
(* strategy's driver then runs as the unit.                                *)
(***************************************************************************)

IsQuote(c) == c \in {"\"", "'"}

\* s[i..] starts with lit
MatchAt(s, i, lit) ==
    i + Len(lit) - 1 <= Len(s) /\ SubSeq(s, i, i + Len(lit) - 1) = lit

\* the first index >= i of s that holds a quote (Len(s) + 1: none)
RECURSIVE SkipNonQuotes(_, _)
SkipNonQuotes(s, i) ==
    IF i <= Len(s) /\ ~IsQuote(s[i]) THEN SkipNonQuotes(s, i + 1) ELSE i

\* the match of  ajax:\s*\{\s*url:\s*["\']([^"\']+)["\']  that starts at i:
\* <<first, last>> of group 1, <<>> without a match there
AjaxMatchAt(s, i) ==
    LET brace == SkipSpaces(s, i + Len(PeopleStr.ajax_colon))
        url == SkipSpaces(s, brace + 1)
        quote == SkipSpaces(s, url + Len(PeopleStr.url_colon))
        close == SkipNonQuotes(s, quote + 1)
    IN  IF /\ MatchAt(s, i, PeopleStr.ajax_colon)
           /\ MatchAt(s, brace, <<"{">>)
           /\ MatchAt(s, url, PeopleStr.url_colon)
           /\ quote <= Len(s) /\ IsQuote(s[quote])
           /\ close > quote + 1 /\ close <= Len(s)
        THEN <<quote + 1, close - 1>>
        ELSE <<>>

\* re.search(...).group(1) on a script's string, NoStr without a match
AjaxSearch(s) ==
    LET at == {i \in 1..Len(s) : AjaxMatchAt(s, i) /= <<>>}
    IN  IF at = {} THEN NoStr
        ELSE LET g == AjaxMatchAt(s, SetMin(at)) IN SubSeq(s, g[1], g[2])

\* _extract_datatables_ajax_url (lines 40-49) over the scripts i..Len
RECURSIVE ExtractAjaxUrlFrom(_, _)
ExtractAjaxUrlFrom(scripts, i) ==
    IF i > Len(scripts) THEN NoStr
    ELSE IF /\ scripts[i].has_string /\ scripts[i].string /= <<>>
            /\ Contains(scripts[i].string, PeopleStr.data_table)
            /\ AjaxSearch(scripts[i].string) /= NoStr
         THEN AjaxSearch(scripts[i].string)
         ELSE ExtractAjaxUrlFrom(scripts, i + 1)

_extract_datatables_ajax_url(scripts) == ExtractAjaxUrlFrom(scripts, 1)

Script(string) == [has_string |-> TRUE, string |-> string]
NoStringScript == [has_string |-> FALSE, string |-> <<>>]

\* initial pages: no script; a DataTable with an ajax url; the ajax literal
\* without the DataTable word; a script with src, a DataTable without ajax,
\* and a DataTable with an ajax url
ScrapeInitialPages ==
    { <<>>,
      <<Script(<<"$", "(", "\"", "#", "t", "\"", ")", ".", "D", "a", "t", "a", "T", "a", "b", "l", "e", "(", "{", "a", "j", "a", "x", ":", " ", "{", "u", "r", "l", ":", " ", "\"", "/", "a", "\"", "}", "}", ")">>)>>,
      <<Script(<<"a", "j", "a", "x", ":", " ", "{", " ", "u", "r", "l", ":", " ", "'", "/", "a", "'", " ", "}">>)>>,
      <<NoStringScript,
        Script(<<"D", "a", "t", "a", "T", "a", "b", "l", "e", "(", "{", "}", ")">>),
        Script(<<"D", "a", "t", "a", "T", "a", "b", "l", "e", "(", "{", "a", "j", "a", "x", ":", "{", "u", "r", "l", ":", "'", "h", "t", "t", "p", ":", "/", "/", "s", "/", "a", "'", "}", "}", ")">>)>> }

ScrapeBaseUrls == { <<"h", "t", "t", "p", ":", "/", "/", "s", "/", "1">>, <<"h", "t", "t", "p", ":", "/", "/", "s", "/", "p", "e", "o", "p", "l", "e", "?", "c", "=", "1">> }

\* scrape(max_pages) of a scraper built on base_url
ScrapeInit ==
    /\ unit = "scrape"
    /\ pc = "call"
    /\ \E base_url \in ScrapeBaseUrls, max_pages \in {NoInt, 1} :
          loc = [base_url |-> base_url, max_pages |-> max_pages]
    /\ inp = <<>>
    /\ log = <<>>

ScrapeGet == [op |-> "initial", url |-> loc.base_url]

\* _get_initial_page (lines 51-69) raises: the GET failed, and scrape has
\* no handler
ScrapeInitialError ==
    /\ unit = "scrape"
    /\ pc = "call"
    /\ inp' = Append(inp, [kind |-> "error"])
    /\ log' = Append(log, ScrapeGet)
    /\ pc' = "raised"
    /\ UNCHANGED <<unit, loc>>

\* the branch of lines 293-303 that is taken with the order of the tests
\* swapped
ScrapeStrategyAjaxFirst(base_url, ajax_url) ==
    IF ajax_url /= NoStr THEN "ajax"
    ELSE IF Contains(base_url, PeopleStr.people) THEN "people_ajax"
    ELSE "html"

\* the branch of lines 293-303 that is taken
ScrapeStrategy(base_url, ajax_url) ==
    IF Contains(base_url, PeopleStr.people) THEN "people_ajax"
    ELSE IF ajax_url /= NoStr THEN "ajax"
    ELSE "html"

Call(l, strategy) == Append(l, [op |-> "call", strategy |-> strategy])

\* lines 290-303: the initial page is fetched and the strategy is called
ScrapeInitialPage ==
    /\ unit = "scrape"
    /\ pc = "call"
    /\ \E scripts \in ScrapeInitialPages :
          LET ajax_url == _extract_datatables_ajax_url(scripts)
              strategy == ScrapeStrategy(loc.base_url, ajax_url)
          IN  /\ inp' = Append(inp, [kind |-> "initial", scripts |-> scripts])
              /\ log' = Call(Append(log, ScrapeGet), strategy)
              /\ unit' = strategy
              /\ pc' = IF strategy = "people_ajax" THEN "call" ELSE "loop"
              /\ loc' = CASE strategy = "people_ajax" ->
                               [ajax_url |-> PeopleStr.people_ajax]
                          [] strategy = "ajax" -> AjaxLocals
                          [] strategy = "html" ->
                               HtmlLocals(loc.base_url, loc.max_pages)

\* what json.loads(html.unescape(response.text)) gives: a list of n records,
\* or a value that is no list
PeopleAjaxResponses ==
    {[kind |-> "list", n |-> n] : n \in 0..2} \cup {[kind |-> "notlist", n |-> 0]}

\* _scrape_people_ajax (lines 87-123): the POST is answered
PeopleAjaxPost ==
    /\ unit = "people_ajax"
    /\ pc = "call"
    /\ \E resp \in PeopleAjaxResponses :
          /\ inp' = Append(inp, resp)
          /\ loc' = [ajax_url |-> loc.ajax_url,
                     all_records |-> IF resp.kind = "list"
                                     THEN AjaxRecords(0, resp.n) ELSE <<>>]
    /\ log' = Append(log, [op |-> "post", url |-> loc.ajax_url])
    /\ pc' = "done"
    /\ UNCHANGED unit

\* _scrape_people_ajax: the POST fails or the text is no JSON; both are
\* raised again (lines 118-123)
PeopleAjaxError ==
    /\ unit = "people_ajax"
    /\ pc = "call"
    /\ \E kind \in {"error", "badjson"} : inp' = Append(inp, [kind |-> kind])
    /\ log' = Append(log, [op |-> "post", url |-> loc.ajax_url])
    /\ pc' = "raised"
    /\ UNCHANGED <<unit, loc>>

ScrapeNext ==
    \/ ScrapeInitialError
    \/ ScrapeInitialPage
    \/ PeopleAjaxPost
    \/ PeopleAjaxError
    \/ AjaxNext
    \/ HtmlNext

SpecScrape == ScrapeInit /\ [][ScrapeNext]_vars

(***************************************************************************)
(* Texts of an element                                                     *)
(* An element's text is the sequence of its text nodes in document order,  *)
(* each a string of characters.                                            *)
(***************************************************************************)
\* the stripped text nodes of an element that are not empty
RECURSIVE StrippedStrings(_)
StrippedStrings(nodes) ==
    IF nodes = <<>> THEN <<>>
    ELSE (IF Strip(Head(nodes)) = <<>> THEN <<>> ELSE <<Strip(Head(nodes))>>)
           \o StrippedStrings(Tail(nodes))

\* sep.join(strings)
RECURSIVE Join(_, _)
Join(strings, sep) ==
    IF strings = <<>> THEN <<>>
    ELSE IF Len(strings) = 1 THEN Head(strings)
    ELSE Head(strings) \o sep \o Join(Tail(strings), sep)

\* element.get_text(separator=sep, strip=True)
GetTextStrip(nodes, sep) == Join(StrippedStrings(nodes), sep)

\* s.replace(old, ''), old not empty
RECURSIVE Remove(_, _)
Remove(s, old) ==
    IF Len(s) < Len(old) THEN s
    ELSE IF SubSeq(s, 1, Len(old)) = old
         THEN Remove(SubSeq(s, Len(old) + 1, Len(s)), old)
         ELSE <<Head(s)>> \o Remove(Tail(s), old)

(***************************************************************************)
(* WorkHistoryScraper  (work_history_scraper.py)                           *)
(* A cell of a pastor page's table is [tag, nodes, href]: 'td' or 'th',    *)
(* its text nodes, and the href of its first <a> (NoStr: no <a>, or an <a> *)
(* without href).  Dict keys are strings of characters.                    *)
(***************************************************************************)

\* str(i) for 0 <= i <= 9
Digits == <<"0", "1", "2", "3", "4", "5", "6", "7", "8", "9">>

\* lines 169-175: the texts of the cells of the first row of <thead>
WorkHistoryHeaders(table) ==
    IF table.thead = <<>> THEN <<>>
    ELSE [i \in 1..Len(table.thead[1]) |->
             GetTextStrip(table.thead[1][i].nodes, <<>>)]

\* line 193, for the cell at the 1-based position i
WorkHistoryHeaderName(headers, i) ==
    IF i <= Len(headers) THEN headers[i] ELSE WorkHistoryStr.column \o <<Digits[i]>>

\* lines 199-201: the href of the cell's link, made absolute
WorkHistoryHref(href) ==
    IF ~StartsWith(href, WorkHistoryStr.http) THEN WorkHistoryStr.umdata \o href ELSE href

\* lines 192-218 for the cell i of a row: the row_dict after the cell
WorkHistoryCell(row_dict, headers, cell, i) ==
    LET header_name == WorkHistoryHeaderName(headers, i)
        text == GetTextStrip(cell.nodes, <<>>)
        d1 == IF cell.href /= NoStr /\ cell.href /= <<>>
              THEN Put(row_dict, header_name \o WorkHistoryStr.url_suffix, WorkHistoryHref(cell.href))
              ELSE row_dict
        d2 == IF header_name /= WorkHistoryStr.view_charts
              THEN Put(d1, header_name, text) ELSE d1
    IN  IF header_name = WorkHistoryStr.dates /\ text /= <<>>
        THEN LET dates == _parse_dates(text)
             IN  Put(Put(d2, WorkHistoryStr.start_date, dates[1]), WorkHistoryStr.end_date, dates[2])
        ELSE d2

RECURSIVE WorkHistoryRow(_, _, _, _)
WorkHistoryRow(row_dict, headers, cells, i) ==
    IF i > Len(cells) THEN row_dict
    ELSE WorkHistoryRow(WorkHistoryCell(row_dict, headers, cells[i], i),
                        headers, cells, i + 1)

\* lines 187-221 over the rows i..Len(rows)
RECURSIVE WorkHistoryRows(_, _, _)
WorkHistoryRows(headers, rows, i) ==
    IF i > Len(rows) THEN <<>>
    ELSE LET row_dict == WorkHistoryRow(<<>>, headers, rows[i], 1)
         IN  (IF row_dict /= <<>> THEN <<row_dict>> ELSE <<>>)
               \o WorkHistoryRows(headers, rows, i + 1)

\* table.find_all('tr'): the rows of the table in document order
AllRows(table) == table.thead \o table.tbody \o table.loose

\* lines 178-185: the data rows
WorkHistoryDataRows(table) ==
    IF table.has_tbody THEN table.tbody
    ELSE SkipHeader(AllRows(table))

\* _extract_work_history_table (lines 152-223)
_extract_work_history_table(page) ==
    IF ~page.has_table THEN <<>>
    ELSE WorkHistoryRows(WorkHistoryHeaders(page.table),
                         WorkHistoryDataRows(page.table), 1)

\* _extract_pastor_name (lines 78-93): page.h1 and page.name_div are the
\* text nodes of the first <h1> and of the first div.pastor-name
_extract_pastor_name(page) ==
    IF page.has_h1 THEN JoinWords(GetTextStrip(page.h1, <<" ">>))
    ELSE IF page.has_name_div THEN JoinWords(GetTextStrip(page.name_div, <<" ">>))
    ELSE NoStr

\* scrape_work_history (lines 46-66) when the GET succeeds
WorkHistoryResult(pastor_url, page) ==
    [GCFAId |-> SearchDigitsAfter(pastor_url, WorkHistoryStr.pastor_eq),
     URL |-> pastor_url,
     Name |-> _extract_pastor_name(page),
     WorkHistory |-> _extract_work_history_table(page)]

(***************************************************************************)
(* ChurchScraper  (church_scraper.py)                                      *)
(* A church page is [has_h1, h1, has_title, title, h3s, hci]: the text     *)
(* nodes of the first <h1> and of <title>, the <h3> elements in document   *)
(* order and whether table#hci-download exists.  An <h3> is [nodes, card,  *)
(* card_body, items]: its text nodes, whether it has an ancestor div.card, *)
(* whether that card holds a div.card-body, and the li.list-group-item     *)
(* elements of the card body.  An item is [has_span, nodes], a node being  *)
(* [text, span]: span tells the text nodes of the item's first <span>.     *)
(***************************************************************************)

\* _extract_church_name (lines 85-103)
_extract_church_name(page) ==
    IF page.has_h1
    THEN LET name == GetTextStrip(page.h1, <<>>)
         IN  IF Contains(name, <<"\n">>)
             THEN Strip(Split(name, "\n")[1]) ELSE name
    ELSE IF page.has_title
    THEN Strip(Remove(GetTextStrip(page.title, <<>>), ChurchStr.suffix))
    ELSE NoStr

\* soup.find('h3', string=re.compile(r'Quick Facts', re.I)): the position
\* of the first <h3> whose only child is a string that holds the words
\* (0: none)
QuickFactsHeader(page) ==
    LET at == {i \in 1..Len(page.h3s) :
                  /\ Len(page.h3s[i].nodes) = 1
                  /\ Contains(Lower(page.h3s[i].nodes[1]), ChurchStr.quick_facts)}
    IN  IF at = {} THEN 0 ELSE SetMin(at)

\* re.search(r'\((\d{4})\)', text).group(1), NoStr without a match
SearchYear(text) ==
    LET at == {i \in 1..Len(text) :
                  /\ i + 5 <= Len(text)
                  /\ text[i] = "("
                  /\ \A j \in 1..4 : IsDigit(text[i + j])
                  /\ text[i + 5] = ")"}
    IN  IF at = {} THEN NoStr
        ELSE SubSeq(text, SetMin(at) + 1, SetMin(at) + 4)

\* _extract_quick_facts_year (lines 105-114)
_extract_quick_facts_year(page) ==
    LET h == QuickFactsHeader(page)
    IN  IF h = 0 THEN NoStr
        ELSE SearchYear(GetTextStrip(page.h3s[h].nodes, <<>>))

\* the texts of the nodes of an item, and of those inside its <span>
RECURSIVE ItemNodes(_, _)
ItemNodes(nodes, only_span) ==
    IF nodes = <<>> THEN <<>>
    ELSE (IF only_span /\ ~Head(nodes).span THEN <<>> ELSE <<Head(nodes).text>>)
           \o ItemNodes(Tail(nodes), only_span)

\* CleanValue without the branch of lines 152-153: the commas of a value
\* that does not start with '$' stay
CleanValueDollarOnly(value) ==
    IF StartsWith(value, <<"$">>) THEN Remove(Remove(value, <<"$">>), <<",">>)
    ELSE value

\* lines 150-153: '$' and ',' taken out of a value
CleanValue(value) ==
    IF StartsWith(value, <<"$">>) THEN Remove(Remove(value, <<"$">>), <<",">>)
    ELSE IF Contains(value, <<",">>) THEN Remove(value, <<",">>)
    ELSE value

\* lines 137-157 over the items i..Len(items): the facts after them
RECURSIVE QuickFacts(_, _, _)
QuickFacts(facts, items, i) ==
    IF i > Len(items) THEN facts
    ELSE IF ~items[i].has_span THEN QuickFacts(facts, items, i + 1)
    ELSE LET span_text == GetTextStrip(ItemNodes(items[i].nodes, TRUE), <<>>)
             item_text == GetTextStrip(ItemNodes(items[i].nodes, FALSE), <<>>)
             label == Strip(IF span_text = <<>> THEN item_text
                            ELSE Remove(item_text, span_text))
             value == CleanValue(span_text)
         IN  QuickFacts(IF label /= <<>> /\ value /= <<>>
                        THEN Put(facts, label, value) ELSE facts,
                        items, i + 1)

\* _extract_quick_facts (lines 116-159)
_extract_quick_facts(page) ==
    LET h == QuickFactsHeader(page)
    IN  IF h = 0 THEN <<>>
        ELSE IF ~page.h3s[h].card THEN <<>>
        ELSE IF ~page.h3s[h].card_body THEN <<>>
        ELSE QuickFacts(<<>>, page.h3s[h].items, 1)

\* _check_hci_available (lines 161-166)
_check_hci_available(page) == page.hci

\* {**a, **b}: the keys of both, b's value where both have the key
Merge(a, b) ==
    [k \in (DOMAIN a) \cup (DOMAIN b) |-> IF k \in DOMAIN b THEN b[k] ELSE a[k]]

\* scrape_church_details (lines 45-74) when the GET succeeds
ChurchResult(church_url, page) ==
    Merge(Put(Put(Put(Put(Put(<<>>,
              ChurchStr.church_id, SearchDigitsAfter(church_url, ChurchStr.church_eq)),
              ChurchStr.url, church_url),
              ChurchStr.church_name, _extract_church_name(page)),
              ChurchStr.quick_facts_year, _extract_quick_facts_year(page)),
              ChurchStr.hci, _check_hci_available(page)),
          _extract_quick_facts(page))

(***************************************************************************)
(* Tables of pastor pages, and the extraction applied to one page          *)
(***************************************************************************)
WHCell(tag, text, href) == [tag |-> tag, nodes |-> <<text>>, href |-> href]

\* <tr><th>Appointment</th><th>Dates</th><th>View Charts</th></tr>
WHHeaderRow ==
    <<WHCell("th", <<"A", "p", "p", "o", "i", "n", "t", "m", "e", "n", "t">>, NoStr),
      WHCell("th", WorkHistoryStr.dates, NoStr),
      WHCell("th", WorkHistoryStr.view_charts, NoStr)>>

\* the rows after the header row: a full row, a row with one empty cell,
\* a row of a bare link, a <tr> without cells
WHDataRows ==
    { <<WHCell("td", <<"F", "i", "r", "s", "t", " ", "U", "M", "C">>, <<"/", "c", "h", "u", "r", "c", "h", "?", "c", "h", "u", "r", "c", "h", "=", "9", "5">>),
        WHCell("td", <<"7", "/", "1", "/", "2", "0", "1", "8", " ", "-", " ", "P", "r", "e", "s", "e", "n", "t">>, NoStr),
        WHCell("td", <<"C", "h", "a", "r", "t", "s">>, <<"h", "t", "t", "p", ":", "/", "/", "u", "/", "c">>)>>,
      <<WHCell("td", <<>>, NoStr)>>,
      <<WHCell("td", <<>>, <<>>), WHCell("td", <<>>, NoStr),
        WHCell("td", <<>>, <<"/", "c", "?", "p", "=", "1">>)>>,
      <<>> }

\* the four layouts of a header row and the rows after it
WHTables ==
    UNION { { [thead |-> <<WHHeaderRow>>, has_tbody |-> TRUE, tbody |-> rows, loose |-> <<>>],
              [thead |-> <<WHHeaderRow>>, has_tbody |-> FALSE, tbody |-> <<>>, loose |-> rows],
              [thead |-> <<>>, has_tbody |-> TRUE, tbody |-> <<WHHeaderRow>> \o rows, loose |-> <<>>],
              [thead |-> <<>>, has_tbody |-> FALSE, tbody |-> <<>>, loose |-> <<WHHeaderRow>> \o rows] }
            : rows \in SeqUpTo(WHDataRows, MaxRows) }

NoTable == [thead |-> <<>>, has_tbody |-> FALSE, tbody |-> <<>>, loose |-> <<>>]

PastorPage(h1, table) ==
    [has_h1 |-> h1 /= <<>>, h1 |-> h1, has_name_div |-> FALSE, name_div |-> <<>>,
     has_table |-> table /= NoTable, table |-> table]

PastorHeadings == { <<>>, <<<<" ", "J", "o", "h", "n">>, <<" ", " ", "Q", ".", " ", " ", "D", "o", "e", " ">>>> }

PastorPages == {PastorPage(h1, t) : h1 \in PastorHeadings, t \in WHTables \cup {NoTable}}

ExtractInit ==
    /\ unit = "_extract_work_history_table"
    /\ pc = "call"
    /\ inp \in PastorPages
    /\ loc = <<>>
    /\ log = <<>>

ExtractWorkHistory ==
    /\ unit = "_extract_work_history_table"
    /\ pc = "call"
    /\ loc' = _extract_work_history_table(inp)
    /\ pc' = "done"
    /\ UNCHANGED <<unit, inp, log>>

SpecExtract == ExtractInit /\ [][ExtractWorkHistory]_vars

(***************************************************************************)
(* scrape_multiple_pastors, scrape_multiple_churches: one action per       *)
(* iteration of the loop over the URLs.  A response of kind "error" is a   *)
(* requests.exceptions.RequestException raised by the GET or by            *)
(* raise_for_status.                                                       *)
(***************************************************************************)
PastorUrls == { <<"h", "t", "t", "p", ":", "/", "/", "u", "/", "p", "a", "s", "t", "o", "r", "?", "p", "a", "s", "t", "o", "r", "=", "0", "1", "2">>, <<"/", "p", "a", "s", "t", "o", "r", "?", "x", "=", "1">> }
ChurchUrls == { <<"h", "t", "t", "p", ":", "/", "/", "u", "/", "c", "h", "u", "r", "c", "h", "?", "c", "h", "u", "r", "c", "h", "=", "9", "5">>, <<"h", "t", "t", "p", ":", "/", "/", "u", "/", "c", "h", "u", "r", "c", "h", "?", "i", "d", "=", "7">> }

MultiPastorPages ==
    { PastorPage(<<>>, NoTable),
      PastorPage(<<<<"J", "o", "h", "n", " ", "D", "o", "e">>>>,
                 [thead |-> <<WHHeaderRow>>, has_tbody |-> TRUE,
                  tbody |-> <<CHOOSE r \in WHDataRows : Len(r) = 3 /\ r[1].nodes /= <<<<>>>> >>,
                  loose |-> <<>>]) }

ChurchItem(label, value) ==
    [has_span |-> TRUE,
     nodes |-> <<[text |-> label, span |-> FALSE], [text |-> value, span |-> TRUE]>>]

MultiChurchPages ==
    { [has_h1 |-> FALSE, h1 |-> <<>>, has_title |-> FALSE, title |-> <<>>,
       h3s |-> <<>>, hci |-> FALSE],
      [has_h1 |-> TRUE, h1 |-> <<<<" ", "F", "i", "r", "s", "t", " ", "U", "M", "C", "\n", " ", "A", "n", "y", "t", "o", "w", "n", " ">>>>,
       has_title |-> TRUE, title |-> <<<<"F", "i", "r", "s", "t", " ", "U", "M", "C", " ", "-", " ", "U", "M", "D", "a", "t", "a">>>>,
       h3s |-> <<[nodes |-> <<<<"Q", "u", "i", "c", "k", " ", "F", "a", "c", "t", "s", " ", "(", "2", "0", "2", "3", ")">>>>, card |-> TRUE,
                  card_body |-> TRUE,
                  items |-> <<ChurchItem(<<"M", "e", "m", "b", "e", "r", "s", " ">>, <<"1", ",", "2", "3", "4">>),
                              ChurchItem(<<"B", "u", "d", "g", "e", "t">>, <<"$", "1", "2", ",", "3", "4", "5">>)>>]>>,
       hci |-> TRUE] }

MultiUnits == {"scrape_multiple_pastors", "scrape_multiple_churches"}

MultiInit ==
    /\ unit \in MultiUnits
    /\ \E urls \in SeqUpTo(IF unit = "scrape_multiple_pastors"
                           THEN PastorUrls ELSE ChurchUrls, MaxUrls) :
          /\ loc = [all_results |-> <<>>, i |-> 1, urls |-> urls]
          /\ pc = IF urls = <<>> THEN "done" ELSE "loop"
    /\ inp = <<>>
    /\ log = <<>>

MultiGet == [op |-> "get", url |-> loc.urls[loc.i]]

\* lines 241-242 (pastors), 185-186 (churches)
MultiSleep(i, urls) == i < Len(urls)

\* the iteration after the call has returned result
MultiAppend(result, resp) ==
    /\ loc' = [loc EXCEPT !.all_results = Append(@, result), !.i = @ + 1]
    /\ log' = IF MultiSleep(loc.i, loc.urls)
              THEN Sleep(Append(log, MultiGet)) ELSE Append(log, MultiGet)
    /\ pc' = IF loc.i < Len(loc.urls) THEN "loop" ELSE "done"
    /\ inp' = Append(inp, resp)
    /\ UNCHANGED unit

\* the GET raises: the except clause of scrape_work_history (lines 68-76)
\* and of scrape_church_details (lines 76-83) builds its record from
\* gcfa_id / church_id, a local that is bound only after the GET; reading it
\* raises UnboundLocalError, which no caller catches
MultiError ==
    /\ unit \in MultiUnits
    /\ pc = "loop"
    /\ pc' = "raised"
    /\ inp' = Append(inp, [kind |-> "error"])
    /\ log' = Append(log, MultiGet)
    /\ UNCHANGED <<unit, loc>>

PastorIteration ==
    /\ unit = "scrape_multiple_pastors"
    /\ pc = "loop"
    /\ \E page \in MultiPastorPages :
          MultiAppend(WorkHistoryResult(loc.urls[loc.i], page),
                      [kind |-> "page", page |-> page])

ChurchIteration ==
    /\ unit = "scrape_multiple_churches"
    /\ pc = "loop"
    /\ \E page \in MultiChurchPages :
          MultiAppend(ChurchResult(loc.urls[loc.i], page),
                      [kind |-> "page", page |-> page])

MultiNext == MultiError \/ PastorIteration \/ ChurchIteration

SpecMulti == MultiInit /\ [][MultiNext]_vars

(***************************************************************************)
(* people_scraper.py main, --all: the loop over the conferences            *)
(* (lines 427-471).  One action per conference: scrape_conference with the *)
(* requests of its scrape() call, the tagging of the records, the sleep;   *)
(* the last iteration goes on to the saving of lines 453-459.              *)
(* A conference is [has_id, id, has_name, name].                           *)
(***************************************************************************)

\* line 376: the URL of a conference
ConferenceUrl(conf_id) == PeopleStr.conf_url \o conf_id \o PeopleStr.historic

Conference(id, name) ==
    [has_id |-> id /= NoStr, id |-> id, has_name |-> name /= NoStr, name |-> name]

Conferences ==
    { Conference(<<"3", "1">>, <<"A", "l", "a", "s", "k", "a">>),
      Conference(<<"4", "7">>, NoStr),
      Conference(NoStr, <<"L", "o", "s", "t">>),
      Conference(<<>>, <<"B", "l", "a", "n", "k">>) }

\* what the scrape() call of scrape_conference meets: the initial GET
\* fails; the POST fails; its text is no JSON; its JSON is no list; its
\* JSON is a list of n records
ConferenceOutcomes ==
    {[kind |-> k, n |-> 0] : k \in {"initial_error", "error", "badjson", "notlist"}}
      \cup {[kind |-> "list", n |-> n] : n \in 1..2}

\* the records of a people-ajax answer
PeopleRecords(n) == [k \in 1..n |-> [GCFAId |-> k]]

\* scrape_conference (lines 374-390) that swallows no exception: the
\* exception leaves a None behind
ScrapeConferenceNoneOnError(outcome) ==
    IF outcome.kind = "list" THEN PeopleRecords(outcome.n) ELSE <<NoDict>>

\* scrape_conference (lines 374-390): the records of scrape(), [] when it
\* raises
scrape_conference(outcome) ==
    IF outcome.kind = "list" THEN PeopleRecords(outcome.n) ELSE <<>>

\* the requests of the scrape() call: the POST follows an initial page that
\* was fetched, for the URL holds 'people' (line 293)
ConferenceRequests(l, conf_id, outcome) ==
    LET url == ConferenceUrl(conf_id)
        initial == Append(l, [op |-> "initial", url |-> url])
    IN  IF outcome.kind = "initial_error" THEN initial
        ELSE IF ScrapeStrategy(url, NoStr) = "people_ajax"
             THEN Append(initial, [op |-> "post", url |-> PeopleStr.people_ajax])
             ELSE initial

\* lines 444-448: the records that are dicts get the conference's id and name
Tag(records, conf_id, conf_name) ==
    [k \in 1..Len(records) |->
        IF records[k] = NoDict THEN NoDict
        ELSE [GCFAId |-> records[k].GCFAId,
              ConferenceId |-> conf_id, ConferenceName |-> conf_name]]

\* lines 453-459: the files are written when there are records
Save(l, all_records) ==
    IF all_records /= <<>>
    THEN Append(l, [op |-> "save", n |-> Len(all_records)]) ELSE l

PeopleAllInit ==
    /\ unit = "people_all"
    /\ \E conferences \in SeqUpTo(Conferences, MaxUnits) :
          /\ loc = [all_records |-> <<>>, i |-> 1, conferences |-> conferences]
          /\ pc = IF conferences = <<>> THEN "done" ELSE "loop"
    /\ inp = <<>>
    /\ log = <<>>

\* one iteration of the loop of lines 433-451
PeopleAllConference ==
    /\ unit = "people_all"
    /\ pc = "loop"
    /\ LET conf == loc.conferences[loc.i]
           conf_id == IF conf.has_id THEN conf.id ELSE <<>>
           conf_name == IF conf.has_name THEN conf.name ELSE PeopleStr.unknown
           last == loc.i >= Len(loc.conferences)
       IN  \/ /\ conf_id = <<>>
              /\ inp' = Append(inp, [kind |-> "skipped", n |-> 0])
              /\ loc' = [loc EXCEPT !.i = @ + 1]
              /\ log' = IF last THEN Save(log, loc.all_records) ELSE log
              /\ pc' = IF last THEN "done" ELSE "loop"
           \/ /\ conf_id /= <<>>
              /\ \E outcome \in ConferenceOutcomes :
                    LET records == scrape_conference(outcome)
                        all == loc.all_records \o Tag(records, conf_id, conf_name)
                        asked == ConferenceRequests(log, conf_id, outcome)
                    IN  /\ inp' = Append(inp, outcome)
                        /\ loc' = [loc EXCEPT !.all_records = all, !.i = @ + 1]
                        /\ log' = IF last THEN Save(asked, all) ELSE Sleep(asked)
                        /\ pc' = IF last THEN "done" ELSE "loop"
    /\ UNCHANGED unit

(***************************************************************************)
(* StatsScraper.scrape_statistics_page  (stats.py 28-79)                   *)
(* A row of a table is the sequence of its cells; of a cell the code reads *)
(* [link, nodes, href]: whether it holds an <a>, the text nodes of that    *)
(* <a> and its href (NoStr: none).  The statistics page is [h2s, options]: *)
(* an <h2> is [nodes, container, table, trs] (its text nodes, whether it   *)
(* has a container, whether a table is found in it, the rows of that       *)
(* table), an <option> of select#jurConferences is [value, nodes].         *)
(***************************************************************************)

LinkCell(text, href) == [link |-> TRUE, nodes |-> <<text>>, href |-> href]
TextCell == [link |-> FALSE, nodes |-> <<>>, href |-> NoStr]

\* lines 154-158: the href of a link, made absolute
StatsHref(href) ==
    IF href /= NoStr /\ href /= <<>> /\ ~StartsWith(href, StatsStr.http)
    THEN StatsStr.base_url \o href ELSE href

\* the loop over the rows that _extract_section (143-163),
\* _get_conferences_for_jurisdiction (193-203) and
\* _get_districts_for_jurisdiction (222-232) share; rows i..Len(rows)
RECURSIVE LinkRows(_, _)
LinkRows(rows, i) ==
    IF i > Len(rows) THEN <<>>
    ELSE (IF rows[i] /= <<>> /\ rows[i][1].link
          THEN <<[name |-> GetTextStrip(rows[i][1].nodes, <<>>),
                  url |-> StatsHref(rows[i][1].href)]>>
          ELSE <<>>)
           \o LinkRows(rows, i + 1)

\* _extract_section (lines 93-165)
_extract_section(page, section_name) ==
    LET at == {i \in 1..Len(page.h2s) :
                  Contains(Lower(GetTextStrip(page.h2s[i].nodes, <<>>)),
                           Lower(section_name))}
    IN  IF at = {} THEN <<>>
        ELSE LET header == page.h2s[SetMin(at)]
             IN  IF ~header.container THEN <<>>
                 ELSE IF ~header.table THEN <<>>
                 ELSE LinkRows(SkipHeader(header.trs), 1)

\* _extract_jurisdiction_dropdown_ids (lines 81-91) over the options
\* i..Len(options): the dict after them
RECURSIVE DropdownIds(_, _, _)
DropdownIds(jur_ids, options, i) ==
    IF i > Len(options) THEN jur_ids
    ELSE LET value == options[i].value
             text == GetTextStrip(options[i].nodes, <<>>)
         IN  DropdownIds(IF value /= NoStr /\ value /= <<>> /\ text /= <<>>
                         THEN Put(jur_ids, text, value) ELSE jur_ids,
                         options, i + 1)

_extract_jurisdiction_dropdown_ids(page) == DropdownIds(<<>>, page.options, 1)

\* jur_dropdown_ids.get(jur_name)
DictGet(d, k) == IF k \in DOMAIN d THEN d[k] ELSE NoStr

\* _get_conferences_for_jurisdiction (181-208) and
\* _get_districts_for_jurisdiction (210-237) on the response to their GET
JurisdictionRows(resp) ==
    IF resp.kind = "error" THEN <<>>
    ELSE IF resp.kind = "notable" THEN <<>>
    ELSE LinkRows(SkipHeader(resp.trs), 1)

StatsNames == { <<"N", "o", "r", "t", "h">>, <<"S", "o", "u", "t", "h">> }

StatsHeaderRow == <<TextCell, TextCell>>

\* the rows of the Jurisdictions table of the page
StatsJurisdictionRows ==
    {[k \in 1..Len(names) |-> <<LinkCell(names[k], <<"/", "j", "?", "j", "=", "1">>), TextCell>>] :
        names \in SeqUpTo(StatsNames, MaxUnits)}

\* the dropdown knows North only
StatsOptions ==
    <<[value |-> <<>>, nodes |-> <<<<"A", "l", "l">>>>],
      [value |-> <<"5">>, nodes |-> <<<<" ", "N", "o", "r", "t", "h", " ">>>>]>>

StatsBothOptions ==
    Append(StatsOptions, [value |-> <<"6">>, nodes |-> <<<<"S", "o", "u", "t", "h">>>>])

StatsPages ==
    {[h2s |-> <<[nodes |-> <<<<"D", "i", "s", "t", "r", "i", "c", "t", "s">>>>, container |-> TRUE,
                 table |-> FALSE, trs |-> <<>>],
                [nodes |-> <<<<" ", "j", "u", "r", "i", "s", "d", "i", "c", "t", "i", "o", "n", "s", " ", "(", "5", ")">>>>, container |-> TRUE,
                 table |-> TRUE, trs |-> <<StatsHeaderRow>> \o rows]>>,
      options |-> o] :
        rows \in StatsJurisdictionRows, o \in {StatsOptions, StatsBothOptions}}

\* answers to the GET of a jurisdiction's conferences or districts
StatsResponses ==
    { [kind |-> "error"], [kind |-> "notable"],
      [kind |-> "table",
       trs |-> <<StatsHeaderRow, <<LinkCell(<<"U", "n", "i", "t", " ", "A">>, <<"/", "u", "?", "u", "=", "1">>)>>,
                 <<TextCell>>, <<>> >>] }

StatsInit ==
    /\ unit = "scrape_statistics_page"
    /\ pc = "call"
    /\ loc = <<>>
    /\ inp = <<>>
    /\ log = <<>>

StatsGet(what) == [op |-> "get", what |-> what]

\* lines 38-40: the GET of the statistics page fails and is raised again
\* (lines 77-79)
StatsPageError ==
    /\ unit = "scrape_statistics_page"
    /\ pc = "call"
    /\ inp' = Append(inp, [kind |-> "error"])
    /\ log' = Append(log, StatsGet("statistics"))
    /\ pc' = "raised"
    /\ UNCHANGED <<unit, loc>>

\* lines 38-52: the page is fetched, the jurisdictions and the dropdown ids
\* are read
StatsPage ==
    /\ unit = "scrape_statistics_page"
    /\ pc = "call"
    /\ \E page \in StatsPages :
          LET jurisdictions == _extract_section(page, StatsStr.jurisdictions)
          IN  /\ inp' = Append(inp, [kind |-> "page", page |-> page])
              /\ loc' = [jurisdictions |-> jurisdictions,
                         jur_dropdown_ids |-> _extract_jurisdiction_dropdown_ids(page),
                         all_conferences |-> <<>>, all_districts |-> <<>>,
                         i |-> 1]
              /\ pc' = IF jurisdictions = <<>> THEN "done" ELSE "loop"
    /\ log' = Append(log, StatsGet("statistics"))
    /\ UNCHANGED unit

\* one iteration of the loop of lines 54-69
StatsJurisdiction ==
    /\ unit = "scrape_statistics_page"
    /\ pc = "loop"
    /\ LET jur_name == loc.jurisdictions[loc.i].name
           jur_id == DictGet(loc.jur_dropdown_ids, jur_name)
       IN  \/ /\ jur_id = NoStr
              /\ inp' = Append(inp, [kind |-> "skipped"])
              /\ loc' = [loc EXCEPT !.i = @ + 1]
              /\ log' = log
           \/ /\ jur_id /= NoStr
              /\ \E c \in StatsResponses, d \in StatsResponses :
                    /\ inp' = Append(inp, [kind |-> "fetched", conferences |-> c,
                                           districts |-> d])
                    /\ loc' = [loc EXCEPT
                                 !.all_conferences = @ \o JurisdictionRows(c),
                                 !.all_districts = @ \o JurisdictionRows(d),
                                 !.i = @ + 1]
                    /\ log' = log \o <<StatsGet("conferences"), StatsGet("districts")>>
    /\ pc' = IF loc.i < Len(loc.jurisdictions) THEN "loop" ELSE "done"
    /\ UNCHANGED unit

(***************************************************************************)
(* The three worklist loops                                                *)
(***************************************************************************)
WorklistInit == MegaInit \/ PeopleAllInit \/ StatsInit

WorklistNext ==
    \/ MegaNext
    \/ PeopleAllConference
    \/ StatsPageError
    \/ StatsPage
    \/ StatsJurisdiction

SpecWorklist == WorklistInit /\ [][WorklistNext]_vars

(***************************************************************************)
(* Claims about the offset loop and the politeness sleep                   *)
(***************************************************************************)
\* the requests issued so far, in order
AjaxRequests == Gets(log)

\* C1: in scrape_all_pages_ajax no request is ever issued whose start offset
\* is greater than or equal to the recordsTotal of the preceding response.
C1_StartBelowPrecedingTotal ==
    unit = "ajax" =>
        \A i \in 2..Len(AjaxRequests) :
            inp[i - 1].kind = "data" => AjaxRequests[i].start < inp[i - 1].total

\* C2: after each successful non-empty response the loop stops if and only
\* if len(all_records) has reached that response's recordsTotal.
C2_StopsIffAccumulatedReachesTotal ==
    (unit = "ajax" /\ inp /= <<>> /\ Last(inp).kind = "data" /\ Last(inp).n > 0)
        => ((pc = "done") <=> (Len(loc.all_records) >= Last(inp).total))

\* C4: in every fetch loop the sleep happens only between two fetches: the
\* log of a loop never ends with a sleep once the loop is over.
C4_NoSleepAfterLastFetch ==
    (pc = "done" /\ log /= <<>>) => ~IsSleep(Last(log))

\* the records page i of the running loop returned
PageRecords(i) ==
    IF unit = "ajax"
    THEN (IF inp[i].kind \in {"data", "badtotal"}
          THEN AjaxRecords(AjaxRequests[i].start, inp[i].n) ELSE <<>>)
    ELSE scrape_page(inp[i])

\* page i was fetched and parsed, and held no record
ReturnedZero(i) ==
    /\ PageRecords(i) = <<>>
    /\ inp[i].kind /= "error"
    /\ inp[i].kind /= "nodata"

\* the records of pages 1..i, concatenated
RECURSIVE PagesUpTo(_)
PagesUpTo(i) == IF i = 0 THEN <<>> ELSE PagesUpTo(i - 1) \o PageRecords(i)

\* the aggregate of the running loop
Aggregate == IF unit = "ajax" THEN loc.all_records ELSE loc.all_churches

\* C3 (as claimed): when a page returns zero records the pagination driver
\* issues no further page request and the aggregate is the concatenation of
\* the records of the earlier pages.
C3_ZeroRecordsEndPaging ==
    unit \in {"ajax", "mega"} =>
        \A i \in 1..Len(inp) :
            ReturnedZero(i) => (Len(inp) = i /\ Aggregate = PagesUpTo(i - 1))

\* C3 (amended): the offset loop stops at the first page that returns zero
\* records, its aggregate being the concatenation of the earlier pages; the
\* megachurch loop requests every page 1..total_pages whatever a page
\* returns, and its aggregate is the concatenation of all of them, so that it
\* stops right after an empty page only when that page is the last one.
C3_ZeroRecordsAmended ==
    /\ unit = "ajax" =>
          \A i \in 1..Len(inp) :
              ReturnedZero(i) =>
                  (pc = "done" /\ Len(inp) = i /\ Aggregate = PagesUpTo(i - 1))
    /\ unit = "mega" =>
          /\ Aggregate = PagesUpTo(Len(inp))
          /\ Len(inp) <= loc.total_pages
          /\ (pc = "done" <=> (loc.page_num > loc.total_pages))
          /\ (pc /= "count" => loc.page_num = Len(inp) + 1)

\* C3 witness: a 3-page site whose page 3 is empty: the loop is over after
\* page 3 with the records of pages 1 and 2
C3_Witness ==
    /\ unit = "ajax"
    /\ pc = "done"
    /\ Len(inp) = 3
    /\ ReturnedZero(3) /\ PageRecords(1) /= <<>> /\ PageRecords(2) /= <<>>
    /\ Len(Aggregate) = Len(PageRecords(1)) + Len(PageRecords(2))

(***************************************************************************)
(* Claims about the field normalizer                                       *)
(***************************************************************************)
\* the number of '-' in s
Dashes(s) == Cardinality({i \in 1..Len(s) : s[i] = "-"})

\* what stands before and after the only '-' of s
BeforeDash(s) == SubSeq(s, 1, (CHOOSE i \in 1..Len(s) : s[i] = "-") - 1)
AfterDash(s) == SubSeq(s, (CHOOSE i \in 1..Len(s) : s[i] = "-") + 1, Len(s))

\* C10: _parse_dates maps '' to (None, None), a single token to (converted
\* date, None), two dash-separated tokens whose second is 'Present' in any
\* letter case to (converted first, None), and two dash-separated dates to
\* (converted first, converted second); '7/1/2018 -Present' gives
\* ('2018-07-01', None) and '1/1/2015 - 6/30/2018' gives
\* ('2015-01-01', '2018-06-30').
C10_ParseDatesCases ==
    (unit = "_parse_dates" /\ pc = "done") =>
        /\ inp = <<>> => loc = <<NoStr, NoStr>>
        /\ (inp /= <<>> /\ Dashes(inp) = 0) =>
              loc = <<_convert_to_iso_date(Strip(inp)), NoStr>>
        /\ (Dashes(inp) = 1 /\ Lower(Strip(AfterDash(inp))) = WorkHistoryStr.present) =>
              loc = <<_convert_to_iso_date(Strip(BeforeDash(inp))), NoStr>>
        /\ (Dashes(inp) = 1 /\ Lower(Strip(AfterDash(inp))) /= WorkHistoryStr.present) =>
              loc = <<_convert_to_iso_date(Strip(BeforeDash(inp))),
                      _convert_to_iso_date(Strip(AfterDash(inp)))>>
        /\ inp = <<"7", "/", "1", "/", "2", "0", "1", "8", " ", "-", "P", "r", "e", "s", "e", "n", "t">> =>
              loc = <<<<"2", "0", "1", "8", "-", "0", "7", "-", "0", "1">>, NoStr>>
        /\ inp = <<"1", "/", "1", "/", "2", "0", "1", "5", " ", "-", " ", "6", "/", "3", "0", "/", "2", "0", "1", "8">> =>
              loc = <<<<"2", "0", "1", "5", "-", "0", "1", "-", "0", "1">>, <<"2", "0", "1", "8", "-", "0", "6", "-", "3", "0">>>>

\* C10 witness: '7/1/2018 - present' has been parsed to ('2018-07-01', None)
C10_Witness ==
    /\ unit = "_parse_dates" /\ pc = "done"
    /\ inp = <<"7", "/", "1", "/", "2", "0", "1", "8", " ", "-", " ", "p", "r", "e", "s", "e", "n", "t">>
    /\ loc = <<<<"2", "0", "1", "8", "-", "0", "7", "-", "0", "1">>, NoStr>>

(***************************************************************************)
(* Claims about the rows of a table                                        *)
(***************************************************************************)
\* a row of <th> cells
IsHeaderRow(row) == row /= <<>> /\ \A i \in 1..Len(row) : row[i].tag = "th"

\* the table has one header row, its first row
OneHeaderRow(table) ==
    LET rows == AllRows(table)
    IN  /\ rows /= <<>>
        /\ \A i \in 1..Len(rows) : IsHeaderRow(rows[i]) <=> i = 1

\* C9: for a table with one header row and N data rows,
\* _extract_work_history_table returns at most N records: the records of
\* the data rows, in row order, the rows that give no record left out.
C9_AtMostOneRecordPerDataRow ==
    (unit = "_extract_work_history_table" /\ pc = "done" /\ inp.has_table
       /\ OneHeaderRow(inp.table))
        => /\ Len(loc) <= Len(AllRows(inp.table)) - 1
           /\ loc = WorkHistoryRows(WorkHistoryHeaders(inp.table),
                                    Tail(AllRows(inp.table)), 1)

(***************************************************************************)
(* Claims about the choice of the strategy                                 *)
(***************************************************************************)
IsCall(e) == e.op = "call"
IsPost(e) == e.op = "post"

\* the strategies that scrape has called, in order
Calls == SelectSeq(log, IsCall)

\* the initial request of scrape has been answered
ScrapeStarted == log /= <<>> /\ log[1].op = "initial"

\* the strategy is the one the priority gives for the base URL and the
\* scripts of the initial page
ByPriority(strategy, base_url, scripts) ==
    LET people == Contains(base_url, PeopleStr.people)
        detected == _extract_datatables_ajax_url(scripts) /= NoStr
    IN  /\ strategy = "people_ajax" <=> people
        /\ strategy = "ajax" <=> (~people /\ detected)
        /\ strategy = "html" <=> (~people /\ ~detected)

\* C5 as claimed: every call of scrape runs exactly one strategy, the one
\* the priority people-ajax > AJAX offset > next-link gives.
C5_ExactlyOneStrategy ==
    ScrapeStarted =>
        /\ Len(Calls) = 1
        /\ unit = Calls[1].strategy
        /\ ByPriority(Calls[1].strategy, log[1].url, inp[1].scripts)

\* C5 amended: a call of scrape whose initial page is fetched runs exactly
\* one strategy, the one the priority gives (so never the next-link one
\* when an ajax URL was detected), and the people-ajax variant sends one
\* POST at most and nothing else; a call whose initial fetch fails raises
\* and runs no strategy.
C5_OneStrategyByPriority ==
    ScrapeStarted =>
        IF inp[1].kind = "error"
        THEN unit = "scrape" /\ pc = "raised" /\ Calls = <<>> /\ Len(log) = 1
        ELSE /\ Len(Calls) = 1
             /\ log[2] = Calls[1]
             /\ unit = Calls[1].strategy
             /\ ByPriority(unit, log[1].url, inp[1].scripts)
             /\ _extract_datatables_ajax_url(inp[1].scripts) /= NoStr
                   => unit /= "html"
             /\ unit = "people_ajax" =>
                   /\ Len(log) <= 3
                   /\ \A j \in 3..Len(log) : IsPost(log[j])

\* the base URL holds 'people', the initial page embeds an ajax URL, and the
\* single POST has returned its records
C5_Witness ==
    /\ ScrapeStarted
    /\ unit = "people_ajax"
    /\ pc = "done"
    /\ _extract_datatables_ajax_url(inp[1].scripts) /= NoStr
    /\ Len(loc.all_records) = 2

(***************************************************************************)
(* Claims about the multi-URL loops                                        *)
(***************************************************************************)
\* the record that the claim says the failed call returns
IsErrorRecord(result, url) ==
    IF unit = "scrape_multiple_pastors"
    THEN /\ result.URL = url
         /\ result.Name = NoStr
         /\ result.WorkHistory = <<>>
         /\ "Error" \in DOMAIN result
    ELSE /\ result[ChurchStr.url] = url
         /\ result[ChurchStr.church_name] = NoStr
         /\ ChurchStr.error \in DOMAIN result

\* C6: when the GET of scrape_work_history or scrape_church_details fails,
\* the call does not raise; it returns a record with the URL, a null name
\* and an Error text, and the loop over the URLs goes on.
C6_TransportErrorGivesErrorRecord ==
    (unit \in MultiUnits /\ inp /= <<>> /\ Last(inp).kind = "error")
        => /\ pc /= "raised"
           /\ Len(loc.all_results) = Len(inp)
           /\ IsErrorRecord(Last(loc.all_results), loc.urls[Len(inp)])
           /\ pc = "done" <=> Len(inp) = Len(loc.urls)

(***************************************************************************)
(* Claims about the records                                                *)
(***************************************************************************)
\* C8: every record that _scrape_html_table emits has a field that is not
\* empty (its identifying field is one of them); a row without one is left
\* out.
C8_RecordsHaveIdentifyingField ==
    unit = "html" =>
        \A i \in 1..Len(loc.all_records) :
            \E k \in DOMAIN loc.all_records[i] : loc.all_records[i][k] /= ""

(***************************************************************************)
(* Claims about the worklist loops                                         *)
(* inp holds one entry per unit that the loop has gone through (after the  *)
(* statistics page itself in scrape_statistics_page).                      *)
(***************************************************************************)
\* the concatenation of a sequence of sequences
RECURSIVE Flatten(_)
Flatten(seqs) == IF seqs = <<>> THEN <<>> ELSE Head(seqs) \o Flatten(Tail(seqs))

\* what page i gives to the aggregate when an errored page gives nothing
MegaContribution(i) ==
    IF inp[i].kind = "error" THEN <<>>
    ELSE IF inp[i].kind = "notable" THEN <<>>
    ELSE MegaChurches(SkipHeader(inp[i].trs), 1)

\* what conference i gives to the aggregate when only an answered POST
\* with a list gives something
ConferenceContribution(i) ==
    LET conf == loc.conferences[i]
    IN  IF inp[i].kind = "list"
        THEN Tag(PeopleRecords(inp[i].n), conf.id,
                 IF conf.has_name THEN conf.name ELSE PeopleStr.unknown)
        ELSE <<>>

\* what a fetch gives when a failed fetch gives nothing
FetchContribution(resp) ==
    IF resp.kind = "table" THEN LinkRows(SkipHeader(resp.trs), 1) ELSE <<>>

\* the conferences (districts) that jurisdiction i gives, each fetch being
\* a unit of its own; i counts the entries of inp
ConferencesOfFetch(i) ==
    IF inp[i].kind = "fetched" THEN FetchContribution(inp[i].conferences) ELSE <<>>
DistrictsOfFetch(i) ==
    IF inp[i].kind = "fetched" THEN FetchContribution(inp[i].districts) ELSE <<>>

\* an error happened while jurisdiction i was processed
JurisdictionErrored(i) ==
    /\ inp[i].kind = "fetched"
    /\ inp[i].conferences.kind = "error" \/ inp[i].districts.kind = "error"

\* the mega and people loops: an errored unit gives nothing, the others give
\* all their records, and the loop ends only after the last unit
WorklistMegaPeople ==
    /\ (unit = "mega" /\ pc /= "count") =>
          /\ loc.all_churches = Flatten([i \in 1..Len(inp) |-> MegaContribution(i)])
          /\ pc = "done" <=> Len(inp) = loc.total_pages
    /\ unit = "people_all" =>
          /\ loc.all_records = Flatten([i \in 1..Len(inp) |-> ConferenceContribution(i)])
          /\ pc = "done" <=> Len(inp) = Len(loc.conferences)

StatsLoop == unit = "scrape_statistics_page" /\ pc \in {"loop", "done"}

\* C7 as claimed: in each of the three loops a unit with an error gives no
\* record to the aggregate, every later unit is attempted, and the units
\* without error give all their records.
C7_ErroredUnitGivesNothing ==
    /\ WorklistMegaPeople
    /\ StatsLoop =>
          /\ loc.all_conferences = Flatten([k \in 1..(Len(inp) - 1) |->
                 IF JurisdictionErrored(k + 1) THEN <<>> ELSE ConferencesOfFetch(k + 1)])
          /\ loc.all_districts = Flatten([k \in 1..(Len(inp) - 1) |->
                 IF JurisdictionErrored(k + 1) THEN <<>> ELSE DistrictsOfFetch(k + 1)])
          /\ pc = "done" <=> Len(inp) - 1 = Len(loc.jurisdictions)

\* C7 amended: the same for the mega pages and the conferences; in
\* scrape_statistics_page the unit is the single fetch: a failed fetch of a
\* jurisdiction's conferences (districts) gives no conference (district),
\* the records of the jurisdiction's other fetch are kept, and every later
\* jurisdiction is attempted.
C7_ErroredFetchGivesNothing ==
    /\ WorklistMegaPeople
    /\ StatsLoop =>
          /\ loc.all_conferences =
                Flatten([k \in 1..(Len(inp) - 1) |-> ConferencesOfFetch(k + 1)])
          /\ loc.all_districts =
                Flatten([k \in 1..(Len(inp) - 1) |-> DistrictsOfFetch(k + 1)])
          /\ pc = "done" <=> Len(inp) - 1 = Len(loc.jurisdictions)

\* two jurisdictions: the conferences of the first could not be fetched, its
\* districts could, and the second was fetched in full
C7_Witness ==
    /\ unit = "scrape_statistics_page"
    /\ pc = "done"
    /\ Len(inp) = 3
    /\ inp[2].kind = "fetched" /\ inp[3].kind = "fetched"
    /\ inp[2].conferences.kind = "error"
    /\ inp[2].districts.kind = "table"
    /\ inp[3].conferences.kind = "table"
    /\ inp[3].districts.kind = "table"
    /\ Len(loc.all_conferences) = 1
    /\ Len(loc.all_districts) = 2


(***************************************************************************)
(* _convert_to_iso_date applied to a string of its own                     *)
(***************************************************************************)
IsoMonths ==
    { <<"7">>, <<"0", "7">>, <<"1", "2">>, <<"1", "3">>, <<"0">>, <<"a">>, <<>>, <<" ", "2">> }
IsoDays == { <<"1">>, <<"0", "1">>, <<"3", "1">>, <<"3", "0">>, <<"4", "5">>, <<"b">> }
IsoYears == { <<"2", "0", "1", "8">>, <<"1", "8">>, <<"2", "0", "2", "0", " ">>, <<"y">> }

IsoDateStrings ==
    {m \o <<"/">> \o d \o <<"/">> \o y :
        m \in IsoMonths, d \in IsoDays, y \in IsoYears}
      \cup { <<>>, <<"7", "/", "1">>, <<"2", "0", "1", "8", "-", "0", "7", "-", "0", "1">>, <<"7", "/", "1", "/", "2", "0", "1", "8", "/", "5">>, <<"P", "r", "e", "s", "e", "n", "t">> }

IsoDateInit ==
    /\ unit = "_convert_to_iso_date"
    /\ pc = "call"
    /\ inp \in IsoDateStrings
    /\ loc = <<>>
    /\ log = <<>>

\* self._convert_to_iso_date(date_str)
ConvertToIsoDate ==
    /\ unit = "_convert_to_iso_date"
    /\ pc = "call"
    /\ loc' = _convert_to_iso_date(inp)
    /\ pc' = "done"
    /\ UNCHANGED <<unit, inp, log>>

SpecIsoDate == IsoDateInit /\ [][ConvertToIsoDate]_vars

(***************************************************************************)
(* Claims about _convert_to_iso_date                                       *)
(***************************************************************************)
AllDigits(s) == s /= <<>> /\ \A i \in 1..Len(s) : IsDigit(s[i])

DigitValue(c) ==
    CASE c = "0" -> 0 [] c = "1" -> 1 [] c = "2" -> 2 [] c = "3" -> 3
      [] c = "4" -> 4 [] c = "5" -> 5 [] c = "6" -> 6 [] c = "7" -> 7
      [] c = "8" -> 8 [] c = "9" -> 9

RECURSIVE ToInt(_)
ToInt(s) == IF s = <<>> THEN 0
            ELSE 10 * ToInt(SubSeq(s, 1, Len(s) - 1)) + DigitValue(s[Len(s)])

IsLeap(y) == (y % 4 = 0 /\ y % 100 /= 0) \/ y % 400 = 0

DaysInMonth(m, y) ==
    IF m = 2 THEN (IF IsLeap(y) THEN 29 ELSE 28)
    ELSE IF m \in {4, 6, 9, 11} THEN 30 ELSE 31

\* s is a date M/D/YYYY: a month and a day of one or two digits and a year
\* of four, white space around the three allowed, that name a calendar day
IsMDY(s) ==
    LET parts == Split(s, "/")
    IN  /\ Len(parts) = 3
        /\ LET m == Strip(parts[1])
               d == Strip(parts[2])
               y == Strip(parts[3])
           IN  /\ AllDigits(m) /\ Len(m) \in 1..2
               /\ AllDigits(d) /\ Len(d) \in 1..2
               /\ AllDigits(y) /\ Len(y) = 4
               /\ ToInt(m) \in 1..12
               /\ ToInt(d) \in 1..DaysInMonth(ToInt(m), ToInt(y))

\* one or two digits written with two
TwoDigits(s) == IF Len(s) = 1 THEN <<"0">> \o s ELSE s

\* the YYYY-MM-DD form of a date M/D/YYYY
IsoOf(s) ==
    LET parts == Split(s, "/")
    IN  Strip(parts[3]) \o <<"-">> \o TwoDigits(Strip(parts[1]))
          \o <<"-">> \o TwoDigits(Strip(parts[2]))

\* C11: _convert_to_iso_date turns a date M/D/YYYY into YYYY-MM-DD with a
\* month and a day of two digits, and returns every other string as it is.
C11_IsoDateOrUnchanged ==
    (unit = "_convert_to_iso_date" /\ pc = "done")
        => loc = (IF IsMDY(inp) THEN IsoOf(inp) ELSE inp)


(***************************************************************************)
(* _extract_quick_facts applied to a Quick Facts card                      *)
(***************************************************************************)
MaxFacts == 2

\* the texts of the <span> of an item
FactValues ==
    { <<"$", "1", "2", ",", "3", "4", "5">>, <<"1", ",", "0", "0", "0">>, <<"4", "2">>, <<"1", ",", "2", "3", "4", ",", "5", "6", "7">>, <<"$", "5", " ">>,
      <<"$", "1", ",", "0", "0", "0", "-", "$", "2", ",", "0", "0", "0">>, <<",", "$", "5">>, <<"1", "2", "$">>, <<"$">>, <<>>, <<"S", "m", "i", "t", "h", ",", " ", "J">> }

\* the label of the i-th item
FactLabel(i) == <<"F", "a", "c", "t", " ">> \o <<"a", "b", "c", "d">>[i]

QuickFactsPage(values) ==
    [has_h1 |-> FALSE, h1 |-> <<>>, has_title |-> FALSE, title |-> <<>>,
     h3s |-> <<[nodes |-> <<<<"Q", "u", "i", "c", "k", " ", "F", "a", "c", "t", "s", " ", "(", "2", "0", "2", "3", ")">>>>, card |-> TRUE,
                card_body |-> TRUE,
                items |-> [i \in 1..Len(values) |->
                             ChurchItem(FactLabel(i), values[i])]]>>,
     hci |-> FALSE]

QuickFactsInit ==
    /\ unit = "_extract_quick_facts"
    /\ pc = "call"
    /\ \E n \in 1..MaxFacts : \E values \in [1..n -> FactValues] :
          inp = QuickFactsPage(values)
    /\ loc = <<>>
    /\ log = <<>>

\* facts = self._extract_quick_facts(soup)
ExtractQuickFacts ==
    /\ unit = "_extract_quick_facts"
    /\ pc = "call"
    /\ loc' = _extract_quick_facts(inp)
    /\ pc' = "done"
    /\ UNCHANGED <<unit, inp, log>>

SpecQuickFacts == QuickFactsInit /\ [][ExtractQuickFacts]_vars

(***************************************************************************)
(* Claims about the quick facts                                            *)
(***************************************************************************)
\* s without the characters of the set chars
Without(s, chars) == SelectSeq(s, LAMBDA c : c \notin chars)

\* the text of the <span> of the i-th item of the card, as get_text gives it
SpanText(i) == Strip(inp.h3s[1].items[i].nodes[2].text)

\* the facts are those of the items whose cleaned value is not empty
StoredAs(clean(_)) ==
    LET items == inp.h3s[1].items
    IN  /\ DOMAIN loc = {FactLabel(i) : i \in {j \in 1..Len(items) :
                                                  clean(SpanText(j)) /= <<>>}}
        /\ \A i \in 1..Len(items) :
              clean(SpanText(i)) /= <<>> => loc[FactLabel(i)] = clean(SpanText(i))

\* a leading '$' and every comma taken away
LeadingDollarAndCommas(value) ==
    Without(IF value /= <<>> /\ value[1] = "$" THEN Tail(value) ELSE value, {","})

\* every comma taken away and, from a value that starts with '$', every '$'
DollarsAndCommas(value) ==
    IF value /= <<>> /\ value[1] = "$" THEN Without(value, {"$", ","})
    ELSE Without(value, {","})

\* C12 as stated: the value cleanup strips a leading '$' and every comma
\* and changes nothing else ('$12,345' becomes '12345', '1,000' becomes
\* '1000', '42' stays); no stored value contains a comma or starts with '$'.
C12_LeadingDollarAndCommasOnly ==
    (unit = "_extract_quick_facts" /\ pc = "done")
        => /\ StoredAs(LeadingDollarAndCommas)
           /\ \A label \in DOMAIN loc :
                 /\ ~Contains(loc[label], <<",">>)
                 /\ ~StartsWith(loc[label], <<"$">>)

\* C12 amended: the cleanup takes every comma out of a value and, when the
\* value starts with '$', every '$' as well; it changes nothing else, and a
\* value that is empty after the cleanup is not stored.  No stored value
\* contains a comma, and none that comes from a value starting with '$'
\* contains a '$'.
C12_DollarsAndCommas ==
    (unit = "_extract_quick_facts" /\ pc = "done")
        => /\ StoredAs(DollarsAndCommas)
           /\ \A label \in DOMAIN loc : ~Contains(loc[label], <<",">>)
           /\ \A i \in 1..Len(inp.h3s[1].items) :
                 (StartsWith(SpanText(i), <<"$">>) /\ FactLabel(i) \in DOMAIN loc)
                     => ~Contains(loc[FactLabel(i)], <<"$">>)

\* facts have been taken from a card with '$12,345', and with a value that
\* holds a second '$'
C12_Witness ==
    /\ unit = "_extract_quick_facts"
    /\ pc = "done"
    /\ Len(inp.h3s[1].items) = 2
    /\ SpanText(1) = <<"$", "1", "2", ",", "3", "4", "5">>
    /\ SpanText(2) = <<"$", "1", ",", "0", "0", "0", "-", "$", "2", ",", "0", "0", "0">>
    /\ loc[FactLabel(1)] = <<"1", "2", "3", "4", "5">>
    /\ loc[FactLabel(2)] = <<"1", "0", "0", "0", "-", "2", "0", "0", "0">>


(***************************************************************************)
(* The hrefs of the links of a page, as the three extractors store them    *)
(***************************************************************************)
\* mega/scraper.py 167-171: church['church_url'] = link.get('href', '')
MegaHref(href) == href

HrefUnits == {"work_history", "stats", "mega"}

\* the URL of the page that holds the link
HrefPages ==
    { <<"h", "t", "t", "p", "s", ":", "/", "/", "w", "w", "w", ".", "u", "m", "d", "a", "t", "a", ".", "o", "r", "g", "/", "s", "t", "a", "t", "i", "s", "t", "i", "c", "s">>,
      <<"h", "t", "t", "p", "s", ":", "/", "/", "w", "w", "w", ".", "u", "m", "d", "a", "t", "a", ".", "o", "r", "g", "/", "p", "a", "s", "t", "o", "r", "?", "p", "a", "s", "t", "o", "r", "=", "1", "2">>,
      <<"h", "t", "t", "p", "s", ":", "/", "/", "h", "i", "r", "r", ".", "e", "d", "u", "/", "d", "b", "/", "l", "i", "s", "t", "/", "?", "s", "f", "_", "p", "a", "g", "e", "d", "=", "2">> }

HrefValues ==
    { <<"/", "c", "h", "u", "r", "c", "h", "?", "c", "h", "u", "r", "c", "h", "=", "9", "5", "0", "6", "4", "2">>, <<"c", "h", "u", "r", "c", "h", "?", "c", "h", "u", "r", "c", "h", "=", "9", "5", "0", "6", "4", "2">>,
      <<"h", "t", "t", "p", "s", ":", "/", "/", "w", "w", "w", ".", "u", "m", "d", "a", "t", "a", ".", "o", "r", "g", "/", "c", "h", "u", "r", "c", "h", "?", "c", "h", "u", "r", "c", "h", "=", "1">>, <<"h", "t", "t", "p", ":", "/", "/", "e", ".", "o", "r", "g", "/">>,
      <<"/", "/", "c", "d", "n", ".", "o", "r", "g", "/", "x">>, <<"?", "p", "a", "g", "e", "=", "2">>, <<"#", "t", "o", "p">>, <<"h", "t", "t", "p", "d", "/", "x">>,
      <<"x", "/", "y", ".", "h", "t", "m", "l">>, <<"/">>, <<"m", "a", "i", "l", "t", "o", ":", "a", "@", "b", ".", "o", "r", "g">>, <<"i", "m", "g", ".", "p", "n", "g">> }

HrefInit ==
    /\ unit \in HrefUnits
    /\ pc = "call"
    /\ inp \in [page : HrefPages, href : HrefValues]
    /\ loc = <<>>
    /\ log = <<>>

\* work_history_scraper.py 198-205
HrefWorkHistory ==
    /\ unit = "work_history"
    /\ pc = "call"
    /\ loc' = WorkHistoryHref(inp.href)
    /\ pc' = "done"
    /\ UNCHANGED <<unit, inp, log>>

\* stats.py 152-163
HrefStats ==
    /\ unit = "stats"
    /\ pc = "call"
    /\ loc' = StatsHref(inp.href)
    /\ pc' = "done"
    /\ UNCHANGED <<unit, inp, log>>

\* mega/scraper.py 167-171
HrefMega ==
    /\ unit = "mega"
    /\ pc = "call"
    /\ loc' = MegaHref(inp.href)
    /\ pc' = "done"
    /\ UNCHANGED <<unit, inp, log>>

HrefNext == HrefWorkHistory \/ HrefStats \/ HrefMega

SpecHref == HrefInit /\ [][HrefNext]_vars

(***************************************************************************)
(* Claims about hrefs                                                      *)
(***************************************************************************)
\* the first position of s that holds a character of chars (Len(s) + 1: none)
FirstOf(s, chars) ==
    SetMin({i \in 1..Len(s) : s[i] \in chars} \cup {Len(s) + 1})

\* the href names a scheme: a ':' before any '/', '?' or '#'
HasScheme(href) ==
    LET colon == FirstOf(href, {":"})
    IN  colon > 1 /\ colon <= Len(href) /\ colon < FirstOf(href, {"/", "?", "#"})

\* the parts of an absolute URL scheme://host/path?query#fragment
UrlScheme(url) == SubSeq(url, 1, FirstOf(url, {":"}))
UrlOrigin(url) ==
    LET host == FirstOf(url, {":"}) + 3
    IN  SubSeq(url, 1, host - 1
                         + FirstOf(SubSeq(url, host, Len(url)), {"/", "?", "#"}) - 1)
UrlNoFragment(url) == SubSeq(url, 1, FirstOf(url, {"#"}) - 1)
UrlNoQuery(url) == SubSeq(url, 1, FirstOf(url, {"?", "#"}) - 1)
\* the URL up to the last '/' of its path
UrlDirectory(url) ==
    LET path == UrlNoQuery(url)
        slashes == {i \in Len(UrlOrigin(url)) + 1..Len(path) : path[i] = "/"}
    IN  IF slashes = {} THEN UrlOrigin(url) \o <<"/">>
        ELSE SubSeq(path, 1, CHOOSE i \in slashes : \A j \in slashes : j <= i)

\* the URL that the href of a link names on the page at `page` (RFC 3986
\* section 5.2, for hrefs without dot segments)
UrlJoin(page, href) ==
    IF href = <<>> THEN page
    ELSE IF HasScheme(href) THEN href
    ELSE IF StartsWith(href, <<"/", "/">>) THEN UrlScheme(page) \o href
    ELSE IF href[1] = "/" THEN UrlOrigin(page) \o href
    ELSE IF href[1] = "?" THEN UrlNoQuery(page) \o href
    ELSE IF href[1] = "#" THEN UrlNoFragment(page) \o href
    ELSE UrlDirectory(page) \o href

\* C13: the href of a link is stored as the URL it names on its page: a
\* relative href, with a leading slash or without, joined against the URL
\* of the page, an absolute href as it is.
C13_HrefJoinedAgainstPage ==
    (unit \in HrefUnits /\ pc = "done") => loc = UrlJoin(inp.page, inp.href)


(***************************************************************************)
(* Persistence: the CSV and JSON writers                                   *)
(* A Python value of a record is [t, v]: t the type, v the value.  A dict  *)
(* is a function from its keys (strings of characters) to values.  A file  *)
(* is [t, v]: a text file with its characters, a JSON file with the value  *)
(* that json.dump rendered, or NoFile when it does not exist.              *)
(***************************************************************************)
PyStr(chars) == [t |-> "str", v |-> chars]
PyNone == [t |-> "None"]
PyBool(b) == [t |-> "bool", v |-> b]
PyList(items) == [t |-> "list", v |-> items]
PyDict(d) == [t |-> "dict", v |-> d]

NoFile == [t |-> "none"]
\* a file that holds the characters chars
TextFile(chars) == [t |-> "text", v |-> chars]

\* the ASCII characters from ' ' (32) to '_' (95) and from 'a' (97) to '~'
\* (126), in code point order
AsciiLow ==
    <<" ", "!", "\"", "#", "$", "%", "&", "'", "(", ")", "*", "+", ",", "-", ".", "/">> \o
    <<"0", "1", "2", "3", "4", "5", "6", "7", "8", "9", ":", ";", "<", "=", ">", "?">> \o
    <<"@", "A", "B", "C", "D", "E", "F", "G", "H", "I", "J", "K", "L", "M", "N", "O">> \o
    <<"P", "Q", "R", "S", "T", "U", "V", "W", "X", "Y", "Z", "[", "\\", "]", "^", "_">>
AsciiHigh ==
    <<"a", "b", "c", "d", "e", "f", "g", "h", "i", "j", "k", "l", "m", "n", "o", "p">> \o
    <<"q", "r", "s", "t", "u", "v", "w", "x", "y", "z", "{", "|", "}", "~">>

\* ord(c), for the characters of the model
Ord(c) ==
    IF c = "\t" THEN 9 ELSE IF c = "\n" THEN 10 ELSE IF c = "\r" THEN 13
    ELSE IF \E i \in 1..Len(AsciiLow) : AsciiLow[i] = c
    THEN 31 + CHOOSE i \in 1..Len(AsciiLow) : AsciiLow[i] = c
    ELSE 96 + CHOOSE i \in 1..Len(AsciiHigh) : AsciiHigh[i] = c

\* a < b for two str
RECURSIVE StrLess(_, _)
StrLess(a, b) ==
    IF b = <<>> THEN FALSE
    ELSE IF a = <<>> THEN TRUE
    ELSE IF Head(a) = Head(b) THEN StrLess(Tail(a), Tail(b))
    ELSE Ord(Head(a)) < Ord(Head(b))

\* sorted(S) for a set of str
RECURSIVE Sorted(_)
Sorted(S) ==
    IF S = {} THEN <<>>
    ELSE LET least == CHOOSE a \in S : \A b \in S \ {a} : StrLess(a, b)
         IN  <<least>> \o Sorted(S \ {least})

\* the elements of a sequence
Range(seq) == {seq[i] : i \in 1..Len(seq)}

\* the concatenation of a sequence of sequences
RECURSIVE Concat(_)
Concat(seqs) == IF seqs = <<>> THEN <<>> ELSE Head(seqs) \o Concat(Tail(seqs))

\* str(value) for the values of the model: a str, None, a bool, an empty list
StrOf(value) ==
    CASE value.t = "str" -> value.v
      [] value.t = "None" -> <<"N", "o", "n", "e">>
      [] value.t = "bool" -> IF value.v THEN <<"T", "r", "u", "e">>
                             ELSE <<"F", "a", "l", "s", "e">>
      [] value.t = "list" /\ value.v = <<>> -> <<"[", "]">>

\* what csv.writer writes for a value: '' for None, str(value) otherwise
CsvFieldText(value) == IF value.t = "None" THEN <<>> ELSE StrOf(value)

\* a field as csv.writer puts it on a line (excel dialect, QUOTE_MINIMAL):
\* in quotes, its quotes doubled, when it holds ',', '"', CR or LF
CsvQuote(text) ==
    IF \E i \in 1..Len(text) : text[i] \in {",", "\"", "\r", "\n"}
    THEN <<"\"">>
           \o Concat([i \in 1..Len(text) |->
                        IF text[i] = "\"" THEN <<"\"", "\"">> ELSE <<text[i]>>])
           \o <<"\"">>
    ELSE text

\* writer.writerow(texts): the line of a row, '""' for a row of one empty
\* field, ended by CR LF
CsvLine(texts) ==
    (IF texts = << <<>> >> THEN <<"\"", "\"">>
     ELSE Join([i \in 1..Len(texts) |-> CsvQuote(texts[i])], <<",">>))
      \o <<"\r", "\n">>

\* DictWriter(f, fieldnames).writerow(row): a key the row lacks gives ''
DictLine(fieldnames, row) ==
    CsvLine([i \in 1..Len(fieldnames) |->
               IF fieldnames[i] \in DOMAIN row
               THEN CsvFieldText(row[fieldnames[i]]) ELSE <<>>])

\* writer.writeheader(); writer.writerows(rows)
DictWriterText(fieldnames, rows) ==
    CsvLine(fieldnames)
      \o Concat([i \in 1..Len(rows) |-> DictLine(fieldnames, rows[i])])

\* the keys of all rows (lines 235-237 of church_scraper.py)
AllKeys(rows) == UNION {DOMAIN rows[i] : i \in 1..Len(rows)}

\* MainFirst with the main fields sorted among the other keys
MainFirstAllSorted(main_fields, all_keys) ==
    Sorted(all_keys \cup Range(main_fields))

\* main_fields + sorted(k for k in all_keys if k not in main_fields)
MainFirst(main_fields, all_keys) ==
    main_fields \o Sorted(all_keys \ Range(main_fields))


\* the elements of a set of numbers in ascending order
Ordered(S) ==
    [k \in 1..Cardinality(S) |->
        CHOOSE p \in S : Cardinality({q \in S : q < p}) = k - 1]

\* the pieces of text[first..last] between the positions of cuts, each cut
\* `width` characters wide
Pieces(text, first, last, cuts, width) ==
    LET at == Ordered(cuts)
    IN  [k \in 1..Len(at) + 1 |->
            SubSeq(text, IF k = 1 THEN first ELSE at[k - 1] + width,
                         IF k = Len(at) + 1 THEN last ELSE at[k] - 1)]

\* a field as csv.reader returns it: without the quotes around it, a
\* doubled quote inside them read as one
CsvUnquote(raw) ==
    IF raw /= <<>> /\ raw[1] = "\""
    THEN LET inner == SubSeq(raw, 2, Len(raw) - 1)
             quotes == {j \in 1..Len(inner) : inner[j] = "\""}
             kept == {j \in 1..Len(inner) :
                        j \in quotes
                            => Cardinality({q \in quotes : q < j}) % 2 = 1}
             at == Ordered(kept)
         IN  [k \in 1..Len(at) |-> inner[at[k]]]
    ELSE raw

\* list(csv.reader(f)) for a file that csv.writer wrote, opened with
\* newline='': a CR LF or a ',' after an even number of '"' ends a record
\* or a field, an empty line is an empty record
CsvRows(text) ==
    LET quotes == {j \in 1..Len(text) : text[j] = "\""}
        outside(i) == Cardinality({q \in quotes : q < i}) % 2 = 0
        ends == {i \in 1..Len(text) - 1 :
                    text[i] = "\r" /\ text[i + 1] = "\n" /\ outside(i)}
        last == IF Len(text) - 1 \in ends THEN Len(text) - 2 ELSE Len(text)
        lines == IF text = <<>> THEN <<>>
                 ELSE Pieces(text, 1, last, ends \ {Len(text) - 1}, 2)
    IN  [n \in 1..Len(lines) |->
            IF lines[n] = <<>> THEN <<>>
            ELSE LET line == lines[n]
                     q == {j \in 1..Len(line) : line[j] = "\""}
                     commas == {i \in 1..Len(line) :
                                  /\ line[i] = ","
                                  /\ Cardinality({k \in q : k < i}) % 2 = 0}
                     raw == Pieces(line, 1, Len(line), commas, 1)
                 IN  [f \in 1..Len(raw) |-> CsvUnquote(raw[f])]]

\* csv.DictReader(f): the field names, and the rows as dicts; blank lines
\* are passed over and a field that a short row lacks is None
DictReaderFieldnames(text) ==
    LET rows == SelectSeq(CsvRows(text), LAMBDA r : r /= <<>>)
    IN  IF rows = <<>> THEN <<>> ELSE Head(rows)

DictReaderRows(text) ==
    LET rows == SelectSeq(CsvRows(text), LAMBDA r : r /= <<>>)
        fieldnames == Head(rows)
        at(k) == CHOOSE i \in 1..Len(fieldnames) :
                    /\ fieldnames[i] = k
                    /\ \A j \in i + 1..Len(fieldnames) : fieldnames[j] /= k
    IN  IF rows = <<>> THEN <<>>
        ELSE [n \in 1..Len(rows) - 1 |->
                [k \in Range(fieldnames) |->
                    IF at(k) <= Len(rows[n + 1])
                    THEN PyStr(rows[n + 1][at(k)]) ELSE PyNone]]


\* d.get(k, default)
GetOr(d, k, default) == IF k \in DOMAIN d THEN d[k] ELSE default

\* bool(value)
Truthy(value) ==
    CASE value.t = "str" -> value.v /= <<>>
      [] value.t = "None" -> FALSE
      [] value.t = "bool" -> value.v
      [] value.t = "list" -> value.v /= <<>>
      [] value.t = "dict" -> DOMAIN value.v /= {}

\* open(filename, 'a', ...): the characters of the file stay
OpenAppend(file) == IF file.t = "text" THEN file.v ELSE <<>>

\* open(filename, 'w', ...): the characters the file holds before the
\* first write
OpenW(file) == <<>>

\* json.dump(value, f, indent=2, ensure_ascii=False) into a file opened for
\* writing
JsonFile(value) == [t |-> "json", v |-> value]

\* ChurchScraper.save_to_json (church_scraper.py 222-226)
ChurchSaveToJson(results, file) == JsonFile(results)

\* ChurchScraper.save_to_csv (church_scraper.py 228-249): the file after it
ChurchSaveToCsv(results, file) ==
    IF results = <<>> THEN file
    ELSE LET main_fields == <<ChurchStr.church_id, ChurchStr.url,
                              ChurchStr.church_name, ChurchStr.quick_facts_year>>
             fieldnames == MainFirst(main_fields, AllKeys(results))
         IN  TextFile(OpenW(file) \o DictWriterText(fieldnames, results))

\* WorkHistoryFlattenedRows without the else branch of lines 303-309: a
\* result without work history gives no row
WorkHistoryRowsOfEntries(results) ==
    Concat([i \in 1..Len(results) |->
        LET result == results[i]
            base == Put(Put(Put(<<>>,
                      WorkHistoryStr.gcfa_id,
                      GetOr(result, WorkHistoryStr.gcfa_id, PyStr(<<>>))),
                      WorkHistoryStr.pastor_url,
                      GetOr(result, WorkHistoryStr.url, PyStr(<<>>))),
                      WorkHistoryStr.name,
                      GetOr(result, WorkHistoryStr.name, PyStr(<<>>)))
            work_history == GetOr(result, WorkHistoryStr.work_history, PyList(<<>>))
        IN  IF Truthy(work_history)
            THEN [j \in 1..Len(work_history.v) |-> Merge(base, work_history.v[j].v)]
            ELSE <<>>])

\* lines 287-309 of work_history_scraper.py: one row for each work history
\* entry of a result, one row for a result without entries
WorkHistoryFlattenedRows(results) ==
    Concat([i \in 1..Len(results) |->
        LET result == results[i]
            base == Put(Put(Put(<<>>,
                      WorkHistoryStr.gcfa_id,
                      GetOr(result, WorkHistoryStr.gcfa_id, PyStr(<<>>))),
                      WorkHistoryStr.pastor_url,
                      GetOr(result, WorkHistoryStr.url, PyStr(<<>>))),
                      WorkHistoryStr.name,
                      GetOr(result, WorkHistoryStr.name, PyStr(<<>>)))
            work_history == GetOr(result, WorkHistoryStr.work_history, PyList(<<>>))
        IN  IF Truthy(work_history)
            THEN [j \in 1..Len(work_history.v) |-> Merge(base, work_history.v[j].v)]
            ELSE <<base>>])

\* WorkHistoryScraper.save_to_csv (work_history_scraper.py 280-329)
WorkHistorySaveToCsv(results, file) ==
    IF results = <<>> THEN file
    ELSE LET flattened_rows == WorkHistoryFlattenedRows(results)
             main_fields == <<WorkHistoryStr.gcfa_id, WorkHistoryStr.pastor_url,
                              WorkHistoryStr.name>>
             fieldnames == MainFirst(main_fields, AllKeys(flattened_rows))
         IN  TextFile(OpenW(file) \o DictWriterText(fieldnames, flattened_rows))

\* lines 317-325 of people_scraper.py: the value of a key in the CSV row
PeopleFlatValue(value) ==
    IF value.t = "list" /\ value.v /= <<>>
    THEN LET first == value.v[1]
         IN  IF first.t = "dict"
             THEN IF Truthy(GetOr(first.v, PeopleStr.label, PyNone))
                  THEN first.v[PeopleStr.label]
                  ELSE IF Truthy(GetOr(first.v, PeopleStr.name, PyNone))
                  THEN first.v[PeopleStr.name]
                  ELSE PyStr(StrOf(first))
             ELSE PyStr(StrOf(first))
    ELSE IF value.t = "None" THEN PyStr(<<>>)
    ELSE value

\* lines 313-333 of people_scraper.py for one record
PeopleFlatRecord(record) ==
    IF record.t = "dict"
    THEN LET flat_record == [k \in DOMAIN record.v |-> PeopleFlatValue(record.v[k])]
         IN  PyDict(IF /\ PeopleStr.gcfa_id \in DOMAIN flat_record
                       /\ Truthy(flat_record[PeopleStr.gcfa_id])
                    THEN Put(flat_record, PeopleStr.url,
                             PyStr(PeopleStr.pastor
                                     \o StrOf(flat_record[PeopleStr.gcfa_id])))
                    ELSE flat_record)
    ELSE record

\* UMDataScraper.save_to_csv (people_scraper.py 305-354)
PeopleSaveToCsv(records, file) ==
    IF records = <<>> THEN file
    ELSE LET flattened_records ==
                 [i \in 1..Len(records) |-> PeopleFlatRecord(records[i])]
             all_keys == UNION {DOMAIN flattened_records[i].v :
                                  i \in {j \in 1..Len(records) :
                                            flattened_records[j].t = "dict"}}
             fieldnames == Sorted(all_keys)
         IN  IF flattened_records[1].t = "dict"
             THEN TextFile(OpenW(file)
                     \o DictWriterText(fieldnames,
                           [i \in 1..Len(records) |-> flattened_records[i].v]))
             ELSE TextFile(OpenW(file)
                     \o Concat([i \in 1..Len(records) |->
                           CsvLine([j \in 1..Len(flattened_records[i].v) |->
                                      CsvFieldText(flattened_records[i].v[j])])]))

\* UMDataScraper.save_to_json (people_scraper.py 356-371)
PeopleSaveToJson(records, file) ==
    JsonFile([i \in 1..Len(records) |->
        IF /\ records[i].t = "dict"
           /\ PeopleStr.gcfa_id \in DOMAIN records[i].v
           /\ Truthy(records[i].v[PeopleStr.gcfa_id])
        THEN PyDict(Put(records[i].v, PeopleStr.url,
                        PyStr(PeopleStr.pastor
                                \o StrOf(records[i].v[PeopleStr.gcfa_id]))))
        ELSE records[i]])

\* MegachurchScraper.save_to_csv (mega/scraper.py 216-235)
MegaSaveToCsv(churches, file) ==
    IF churches = <<>> THEN file
    ELSE LET fieldnames == <<MegaStr.church_name, MegaStr.church_url, MegaStr.city,
                             MegaStr.state, MegaStr.size, MegaStr.denomination>>
         IN  TextFile(OpenW(file) \o DictWriterText(fieldnames, churches))


(***************************************************************************)
(* The writers called on a list of records and a file                      *)
(*   inp.records  the records passed                                       *)
(*   inp.file     the file at the target path before the first call        *)
(*   loc.file     the file at the target path now                          *)
(*   loc.calls    the calls of the writer made, with the same arguments    *)
(***************************************************************************)
MaxRecords == 2
MaxCalls == 2

\* the dict of a sequence of <<key, value>>
DictOf(pairs) ==
    [k \in {pairs[i][1] : i \in 1..Len(pairs)} |->
        pairs[CHOOSE i \in 1..Len(pairs) : pairs[i][1] = k][2]]

\* records as scrape_church_details returns them: of a church with
\* its facts, of a page without name and year, of a failed request
ChurchRecordPool ==
    << DictOf(<<<<<<"C", "h", "u", "r", "c", "h", "I", "d">>, PyStr(<<"1">>)>>,
          <<<<"U", "R", "L">>, PyStr(<<"u", "/", "1">>)>>,
          <<<<"C", "h", "u", "r", "c", "h", "N", "a", "m", "e">>, PyStr(<<"A", ",", " ", "B">>)>>,
          <<<<"Q", "u", "i", "c", "k", "F", "a", "c", "t", "s", "Y", "e", "a", "r">>, PyStr(<<"2", "0", "2", "3">>)>>,
          <<<<"H", "C", "I", "_", "D", "a", "t", "a", "A", "v", "a", "i", "l", "a", "b", "l", "e">>, PyBool(TRUE)>>,
          <<<<"M", "e", "m", "b", "e", "r", "s">>, PyStr(<<"1", "2">>)>>>>),
       DictOf(<<<<<<"C", "h", "u", "r", "c", "h", "I", "d">>, PyStr(<<"2">>)>>,
          <<<<"U", "R", "L">>, PyStr(<<"u", "/", "2">>)>>,
          <<<<"C", "h", "u", "r", "c", "h", "N", "a", "m", "e">>, PyNone>>,
          <<<<"Q", "u", "i", "c", "k", "F", "a", "c", "t", "s", "Y", "e", "a", "r">>, PyNone>>,
          <<<<"H", "C", "I", "_", "D", "a", "t", "a", "A", "v", "a", "i", "l", "a", "b", "l", "e">>, PyBool(FALSE)>>,
          <<<<"B", "u", "d", "g", "e", "t">>, PyStr(<<"5">>)>>,
          <<<<"A", "t", "t", "e", "n", "d", "a", "n", "c", "e">>, PyStr(<<"7">>)>>>>),
       DictOf(<<<<<<"C", "h", "u", "r", "c", "h", "I", "d">>, PyStr(<<"3">>)>>,
          <<<<"U", "R", "L">>, PyStr(<<"u", "/", "3">>)>>,
          <<<<"E", "r", "r", "o", "r">>, PyStr(<<"n", "o", " ", "\"", "x", "\"">>)>>>>) >>

\* records as scrape_pastor_work_history returns them: with two
\* entries, without entries, of a failed request
WorkHistoryRecordPool ==
    << DictOf(<<<<<<"G", "C", "F", "A", "I", "d">>, PyStr(<<"7">>)>>,
          <<<<"U", "R", "L">>, PyStr(<<"p", "/", "7">>)>>,
          <<<<"N", "a", "m", "e">>, PyStr(<<"A", "n", "n">>)>>,
          <<<<"W", "o", "r", "k", "H", "i", "s", "t", "o", "r", "y">>, PyList(<<
            PyDict(DictOf(<<<<<<"A", "p", "p", "o", "i", "n", "t", "m", "e", "n", "t">>, PyStr(<<"F", "i", "r", "s", "t">>)>>,
                <<<<"S", "t", "a", "r", "t", "D", "a", "t", "e">>, PyStr(<<"2", "0", "1", "8", "-", "0", "7", "-", "0", "1">>)>>,
                <<<<"E", "n", "d", "D", "a", "t", "e">>, PyNone>>>>)),
            PyDict(DictOf(<<<<<<"A", "p", "p", "o", "i", "n", "t", "m", "e", "n", "t">>, PyStr(<<"O", "l", "d", ",", " ", "R", "d">>)>>,
                <<<<"A", "p", "p", "o", "i", "n", "t", "m", "e", "n", "t", "_", "U", "R", "L">>, PyStr(<<"c", "/", "1">>)>>,
                <<<<"S", "t", "a", "r", "t", "D", "a", "t", "e">>, PyStr(<<"2", "0", "1", "5", "-", "0", "1", "-", "0", "1">>)>>,
                <<<<"E", "n", "d", "D", "a", "t", "e">>, PyStr(<<"2", "0", "1", "8", "-", "0", "6", "-", "3", "0">>)>>>>))>>)>>>>),
       DictOf(<<<<<<"G", "C", "F", "A", "I", "d">>, PyStr(<<"8">>)>>,
          <<<<"U", "R", "L">>, PyStr(<<"p", "/", "8">>)>>,
          <<<<"N", "a", "m", "e">>, PyNone>>,
          <<<<"W", "o", "r", "k", "H", "i", "s", "t", "o", "r", "y">>, PyList(<<>>)>>>>),
       DictOf(<<<<<<"G", "C", "F", "A", "I", "d">>, PyStr(<<"9">>)>>,
          <<<<"U", "R", "L">>, PyStr(<<"p", "/", "9">>)>>,
          <<<<"E", "r", "r", "o", "r">>, PyStr(<<"e">>)>>>>) >>

\* records of the people endpoint that are objects
PeopleDictPool ==
    << PyDict(DictOf(<<<<<<"N", "a", "m", "e">>, PyStr(<<"A", "n", "n">>)>>,
          <<<<"G", "C", "F", "A", "I", "d">>, PyStr(<<"7">>)>>,
          <<<<"C", "o", "n", "f", "e", "r", "e", "n", "c", "e">>, PyList(<<PyDict(DictOf(<<<<<<"l", "a", "b", "e", "l">>, PyStr(<<"W", "e", "s", "t">>)>>>>))>>)>>,
          <<<<"S", "t", "a", "t", "u", "s">>, PyNone>>>>)),
       PyDict(DictOf(<<<<<<"N", "a", "m", "e">>, PyStr(<<"B", "o", "b", ",", " ", "J", "r">>)>>,
          <<<<"G", "C", "F", "A", "I", "d">>, PyStr(<<>>)>>,
          <<<<"T", "a", "g", "s">>, PyList(<<>>)>>>>)),
       PyDict(DictOf(<<<<<<"N", "a", "m", "e">>, PyStr(<<"C", "y">>)>>,
          <<<<"G", "C", "F", "A", "I", "d">>, PyStr(<<"9">>)>>,
          <<<<"R", "o", "l", "e", "s">>, PyList(<<PyStr(<<"E", "l", "d", "e", "r">>), PyStr(<<"D", "e", "a", "n">>)>>)>>>>)) >>

\* records of a DataTables endpoint that are arrays
PeopleListPool ==
    << PyList(<<PyStr(<<"A", "n", "n">>), PyStr(<<"7">>)>>),
       PyList(<<PyStr(<<"B", "o", "b", ",", " ", "J", "r">>), PyStr(<<>>)>>) >>

\* records as _extract_church_info returns them
MegaRecordPool ==
    << DictOf(<<<<<<"c", "h", "u", "r", "c", "h", "_", "n", "a", "m", "e">>, PyStr(<<"G", "r", "a", "c", "e">>)>>,
          <<<<"c", "h", "u", "r", "c", "h", "_", "u", "r", "l">>, PyStr(<<"h", "t", "t", "p", ":", "/", "/", "g", ".", "o", "r", "g">>)>>,
          <<<<"c", "i", "t", "y">>, PyStr(<<"A", "d", "a">>)>>,
          <<<<"s", "t", "a", "t", "e">>, PyStr(<<"O", "K">>)>>,
          <<<<"s", "i", "z", "e">>, PyStr(<<"2", ",", "0", "0", "0">>)>>,
          <<<<"d", "e", "n", "o", "m", "i", "n", "a", "t", "i", "o", "n">>, PyStr(<<"U", "M", "C">>)>>>>),
       DictOf(<<<<<<"c", "h", "u", "r", "c", "h", "_", "n", "a", "m", "e">>, PyStr(<<"H", "o", "p", "e">>)>>,
          <<<<"c", "h", "u", "r", "c", "h", "_", "u", "r", "l">>, PyStr(<<>>)>>,
          <<<<"c", "i", "t", "y">>, PyStr(<<"B", "l", "y">>)>>,
          <<<<"s", "t", "a", "t", "e">>, PyStr(<<>>)>>,
          <<<<"s", "i", "z", "e">>, PyStr(<<>>)>>,
          <<<<"d", "e", "n", "o", "m", "i", "n", "a", "t", "i", "o", "n">>, PyStr(<<>>)>>>>) >>

SaveUnits ==
    {"ChurchScraper.save_to_csv", "ChurchScraper.save_to_json",
     "WorkHistoryScraper.save_to_csv", "UMDataScraper.save_to_csv",
     "UMDataScraper.save_to_json", "MegachurchScraper.save_to_csv"}

\* the pools a writer's records come from
SavePools(u) ==
    CASE u \in {"ChurchScraper.save_to_csv", "ChurchScraper.save_to_json"} ->
           <<ChurchRecordPool>>
      [] u = "WorkHistoryScraper.save_to_csv" -> <<WorkHistoryRecordPool>>
      [] u \in {"UMDataScraper.save_to_csv", "UMDataScraper.save_to_json"} ->
           <<PeopleDictPool, PeopleListPool>>
      [] u = "MegachurchScraper.save_to_csv" -> <<MegaRecordPool>>

\* the files at the target path before the call
OldFiles == <<NoFile, TextFile(<<"o", "l", "d", "\r", "\n">>)>>

SaveInit ==
    /\ unit \in SaveUnits
    /\ pc = "call"
    /\ \E p \in 1..Len(SavePools(unit)), o \in 1..Len(OldFiles) :
         LET pool == SavePools(unit)[p]
         IN  \E n \in 0..MaxRecords : \E ix \in [1..n -> 1..Len(pool)] :
                /\ inp = [records |-> [i \in 1..n |-> pool[ix[i]]],
                          file |-> OldFiles[o]]
                /\ loc = [file |-> OldFiles[o], calls |-> 0]
    /\ log = <<>>

\* a call of the writer of `unit` has left the file `file`
Saved(file) ==
    /\ loc.calls < MaxCalls
    /\ loc' = [file |-> file, calls |-> loc.calls + 1]
    /\ pc' = "done"
    /\ UNCHANGED <<unit, inp, log>>

ChurchCsv ==
    /\ unit = "ChurchScraper.save_to_csv"
    /\ Saved(ChurchSaveToCsv(inp.records, loc.file))

ChurchJson ==
    /\ unit = "ChurchScraper.save_to_json"
    /\ Saved(ChurchSaveToJson(inp.records, loc.file))

WorkHistoryCsv ==
    /\ unit = "WorkHistoryScraper.save_to_csv"
    /\ Saved(WorkHistorySaveToCsv(inp.records, loc.file))

PeopleCsv ==
    /\ unit = "UMDataScraper.save_to_csv"
    /\ Saved(PeopleSaveToCsv(inp.records, loc.file))

PeopleJson ==
    /\ unit = "UMDataScraper.save_to_json"
    /\ Saved(PeopleSaveToJson(inp.records, loc.file))

MegaCsv ==
    /\ unit = "MegachurchScraper.save_to_csv"
    /\ Saved(MegaSaveToCsv(inp.records, loc.file))

SaveNext ==
    \/ ChurchCsv \/ ChurchJson \/ WorkHistoryCsv
    \/ PeopleCsv \/ PeopleJson \/ MegaCsv

SpecSave == SaveInit /\ [][SaveNext]_vars



(***************************************************************************)
(* Entry points and worklists read from JSON files                         *)
(*   work_history_scraper.py  main, scrape_from_people_json                *)
(*   church_scraper.py        scrape_from_work_history_json                *)
(*   people_scraper.py        main                                         *)
(* inp[1] holds the arguments and the input file of the call; the answers  *)
(* of the server follow it.  The loops over the URLs and the conferences   *)
(* are those of scrape_multiple_pastors, scrape_multiple_churches and of   *)
(* the --all branch above.                                                 *)
(***************************************************************************)
MaxPeople == 2
MaxLimit == 2

\* os.path.exists(args.input)
Exists(file) == file /= NoFile

\* open(...) and json.load that fall back to a built-in list when the file
\* does not exist
OpenJsonDefaultIfMissing(file) ==
    IF file = NoFile
    THEN [ok |-> TRUE, data |-> <<Conference(<<"3", "1">>, <<"A", "l", "a", "s", "k", "a">>)>>]
    ELSE [ok |-> TRUE, data |-> file.v]

\* with open(file, 'r', encoding='utf-8') as f: data = json.load(f);
\* FileNotFoundError when the file does not exist
OpenJson(file) ==
    IF file = NoFile THEN [ok |-> FALSE, data |-> <<>>]
    ELSE [ok |-> TRUE, data |-> file.v]

\* urls[:max_records]
Slice(urls, max_records) ==
    IF max_records >= 0
    THEN SubSeq(urls, 1, IF max_records < Len(urls) THEN max_records ELSE Len(urls))
    ELSE SubSeq(urls, 1, IF Len(urls) + max_records > 0
                         THEN Len(urls) + max_records ELSE 0)

\* `if max_records:` -- None and 0 are false
LimitGiven(max_records) == max_records /= NoInt /\ max_records /= 0

\* lines 261-268 of work_history_scraper.py: the URLs of the people that
\* have one, cut to max_records
PeopleJsonUrls(people_data, max_records) ==
    LET with_url == SelectSeq(people_data,
                       LAMBDA person : /\ WorkHistoryStr.url \in DOMAIN person
                                       /\ Truthy(person[WorkHistoryStr.url]))
        urls == [i \in 1..Len(with_url) |-> with_url[i][WorkHistoryStr.url].v]
    IN  IF LimitGiven(max_records) THEN Slice(urls, max_records) ELSE urls

\* the same URLs gathered in a list: in the order of the file, one for each
\* entry that holds it
WorkHistoryJsonUrlsInFileOrder(work_history_data, max_records) ==
    LET entries(record) ==
            GetOr(record, ChurchStr.work_history, PyList(<<>>)).v
        church(entry) ==
            LET appointment_url ==
                    GetOr(entry.v, ChurchStr.appointment_url, PyNone)
            IN  /\ Truthy(appointment_url)
                /\ Contains(appointment_url.v, ChurchStr.church_q)
        found == Flatten([i \in 1..Len(work_history_data) |->
                            SelectSeq(entries(work_history_data[i]), church)])
        urls == [k \in 1..Len(found) |-> found[k].v[ChurchStr.appointment_url].v]
    IN  IF LimitGiven(max_records) THEN Slice(urls, max_records) ELSE urls

\* lines 204-216 of church_scraper.py: the Appointment_URLs that hold
\* 'church?', each once, sorted, cut to max_records
WorkHistoryJsonUrls(work_history_data, max_records) ==
    LET entries(record) ==
            GetOr(record, ChurchStr.work_history, PyList(<<>>)).v
        church_urls ==
            UNION {{entries(work_history_data[i])[j].v[ChurchStr.appointment_url].v :
                      j \in {k \in 1..Len(entries(work_history_data[i])) :
                                LET appointment_url ==
                                        GetOr(entries(work_history_data[i])[k].v,
                                              ChurchStr.appointment_url, PyNone)
                                IN  /\ Truthy(appointment_url)
                                    /\ Contains(appointment_url.v, ChurchStr.church_q)}} :
                   i \in 1..Len(work_history_data)}
        sorted == Sorted(church_urls)
    IN  IF LimitGiven(max_records) THEN Slice(sorted, max_records) ELSE sorted

\* the people of a people JSON file: with a URL, with a relative URL, with
\* an empty URL, without URL
PersonPool ==
    << DictOf(<<<<<<"G", "C", "F", "A", "I", "d">>, PyStr(<<"0", "1", "2">>)>>, <<<<"U", "R", "L">>, PyStr(<<"h", "t", "t", "p", ":", "/", "/", "u", "/", "p", "a", "s", "t", "o", "r", "?", "p", "a", "s", "t", "o", "r", "=", "0", "1", "2">>)>>>>),
       DictOf(<<<<<<"U", "R", "L">>, PyStr(<<"/", "p", "a", "s", "t", "o", "r", "?", "x", "=", "1">>)>>>>),
       DictOf(<<<<<<"U", "R", "L">>, PyStr(<<>>)>>>>),
       DictOf(<<<<<<"N", "a", "m", "e">>, PyStr(<<"A", "l">>)>>>>) >>

\* the records of a work history JSON file
WorkHistoryJsonPool ==
    << DictOf(<<<<<<"W", "o", "r", "k", "H", "i", "s", "t", "o", "r", "y">>, PyList(<<PyDict(DictOf(<<<<<<"A", "p", "p", "o", "i", "n", "t", "m", "e", "n", "t">>, PyStr(<<"X">>)>>, <<<<"A", "p", "p", "o", "i", "n", "t", "m", "e", "n", "t", "_", "U", "R", "L">>, PyStr(<<"h", "t", "t", "p", ":", "/", "/", "u", "/", "c", "h", "u", "r", "c", "h", "?", "i", "d", "=", "7">>)>>>>)), PyDict(DictOf(<<<<<<"A", "p", "p", "o", "i", "n", "t", "m", "e", "n", "t">>, PyStr(<<"X">>)>>, <<<<"A", "p", "p", "o", "i", "n", "t", "m", "e", "n", "t", "_", "U", "R", "L">>, PyStr(<<"h", "t", "t", "p", ":", "/", "/", "u", "/", "p", "a", "s", "t", "o", "r", "?", "p", "a", "s", "t", "o", "r", "=", "0", "1", "2">>)>>>>))>>)>>>>),
       DictOf(<<<<<<"W", "o", "r", "k", "H", "i", "s", "t", "o", "r", "y">>, PyList(<<PyDict(DictOf(<<<<<<"A", "p", "p", "o", "i", "n", "t", "m", "e", "n", "t">>, PyStr(<<"X">>)>>, <<<<"A", "p", "p", "o", "i", "n", "t", "m", "e", "n", "t", "_", "U", "R", "L">>, PyStr(<<"h", "t", "t", "p", ":", "/", "/", "u", "/", "c", "h", "u", "r", "c", "h", "?", "c", "h", "u", "r", "c", "h", "=", "9", "5">>)>>>>)), PyDict(DictOf(<<<<<<"A", "p", "p", "o", "i", "n", "t", "m", "e", "n", "t">>, PyStr(<<"X">>)>>, <<<<"A", "p", "p", "o", "i", "n", "t", "m", "e", "n", "t", "_", "U", "R", "L">>, PyStr(<<"h", "t", "t", "p", ":", "/", "/", "u", "/", "c", "h", "u", "r", "c", "h", "?", "i", "d", "=", "7">>)>>>>))>>)>>>>),
       DictOf(<<<<<<"W", "o", "r", "k", "H", "i", "s", "t", "o", "r", "y">>, PyList(<<PyDict(DictOf(<<<<<<"A", "p", "p", "o", "i", "n", "t", "m", "e", "n", "t">>, PyStr(<<"Y">>)>>>>))>>)>>>>),
       DictOf(<<<<<<"N", "a", "m", "e">>, PyStr(<<"A", "l">>)>>>>) >>

Limits == {NoInt} \cup 0..MaxLimit

EntryUnits ==
    {"work_history.main", "scrape_from_work_history_json", "people.main"}

\* the lists of at most MaxPeople elements of a pool
ListsFrom(pool) ==
    UNION {{[i \in 1..n |-> pool[ix[i]]] : ix \in [1..n -> 1..Len(pool)]} :
             n \in 0..MaxPeople}

\* the arguments of a call and the input file it finds
EntryArgs(u) ==
    CASE u = "work_history.main" ->
           [input : {NoFile} \cup {JsonFile(d) : d \in ListsFrom(PersonPool)},
            limit : Limits, csv : BOOLEAN, output_dir : BOOLEAN]
      [] u = "scrape_from_work_history_json" ->
           [input : {JsonFile(d) : d \in ListsFrom(WorkHistoryJsonPool)},
            limit : Limits]
      [] u = "people.main" ->
           [input : {NoFile} \cup {JsonFile(d) : d \in SeqUpTo(Conferences, MaxUnits)},
            mode : {"all", "conference", "none"}]

EntryInit ==
    /\ unit \in EntryUnits
    /\ pc = "call"
    /\ \E args \in EntryArgs(unit) : inp = <<args>>
    /\ loc = <<>>
    /\ log = <<>>

\* work_history_scraper.py main, lines 367-370: the input file is missing
WorkHistoryMainMissing ==
    /\ unit = "work_history.main"
    /\ pc = "call"
    /\ ~Exists(inp[1].input)
    /\ log' = Append(log, [op |-> "print"])
    /\ pc' = "done"
    /\ UNCHANGED <<unit, loc, inp>>

\* the same steps with the output file opened for writing before the scrape
WorkHistoryMainOpensOutputFirst ==
    /\ unit = "work_history.main"
    /\ pc = "call"
    /\ Exists(inp[1].input)
    /\ LET people_data == OpenJson(inp[1].input).data
           urls == PeopleJsonUrls(people_data, inp[1].limit)
       IN  /\ loc' = [all_results |-> <<>>, i |-> 1, urls |-> urls]
           /\ pc' = IF urls = <<>> THEN "done" ELSE "loop"
    /\ log' = <<[op |-> "main"], [op |-> "save", n |-> 0]>>
    /\ unit' = "scrape_multiple_pastors"
    /\ UNCHANGED inp

\* work_history_scraper.py main, lines 372-385, and scrape_from_people_json
\* up to its call of scrape_multiple_pastors (lines 257-272)
WorkHistoryMain ==
    /\ unit = "work_history.main"
    /\ pc = "call"
    /\ Exists(inp[1].input)
    /\ LET people_data == OpenJson(inp[1].input).data
           urls == PeopleJsonUrls(people_data, inp[1].limit)
       IN  /\ loc' = [all_results |-> <<>>, i |-> 1, urls |-> urls]
           /\ pc' = IF urls = <<>> THEN "done" ELSE "loop"
    /\ log' = IF inp[1].output_dir
              THEN <<[op |-> "main"], [op |-> "makedirs"]>> ELSE <<[op |-> "main"]>>
    /\ unit' = "scrape_multiple_pastors"
    /\ UNCHANGED inp

\* work_history_scraper.py main, lines 387-407: the results are saved
WorkHistoryMainSave ==
    /\ unit = "scrape_multiple_pastors"
    /\ pc = "done"
    /\ log /= <<>> /\ log[1].op = "main"
    /\ log' = IF loc.all_results = <<>> THEN Append(log, [op |-> "print"])
              ELSE LET json == Append(log, [op |-> "save", n |-> Len(loc.all_results)])
                   IN  IF inp[1].csv
                       THEN Append(json, [op |-> "save", n |-> Len(loc.all_results)])
                       ELSE json
    /\ pc' = "returned"
    /\ unit' = "work_history.main"
    /\ UNCHANGED <<loc, inp>>

\* scrape_from_work_history_json (church_scraper.py 190-220) up to its call
\* of scrape_multiple_churches
ChurchFromWorkHistoryJson ==
    /\ unit = "scrape_from_work_history_json"
    /\ pc = "call"
    /\ LET work_history_data == OpenJson(inp[1].input).data
           church_urls == WorkHistoryJsonUrls(work_history_data, inp[1].limit)
       IN  /\ loc' = [all_results |-> <<>>, i |-> 1, urls |-> church_urls]
           /\ pc' = IF church_urls = <<>> THEN "done" ELSE "loop"
    /\ log' = <<[op |-> "call"]>>
    /\ unit' = "scrape_multiple_churches"
    /\ UNCHANGED inp

\* people_scraper.py main --all when conferences.json is missing: lines
\* 423, 430-432 and 465-468
PeopleMainMissing ==
    /\ unit = "people.main"
    /\ pc = "call"
    /\ inp[1].mode = "all"
    /\ ~OpenJson(inp[1].input).ok
    /\ log' = <<[op |-> "makedirs"], [op |-> "print"]>>
    /\ pc' = "done"
    /\ UNCHANGED <<unit, loc, inp>>

\* people_scraper.py main --all, lines 423-435: the loop over the
\* conferences of the file begins
PeopleMainAll ==
    /\ unit = "people.main"
    /\ pc = "call"
    /\ inp[1].mode = "all"
    /\ OpenJson(inp[1].input).ok
    /\ LET conferences == OpenJson(inp[1].input).data
       IN  /\ loc' = [all_records |-> <<>>, i |-> 1, conferences |-> conferences]
           /\ pc' = IF conferences = <<>> THEN "done" ELSE "loop"
    /\ log' = <<[op |-> "makedirs"]>>
    /\ unit' = "people_all"
    /\ UNCHANGED inp

\* people_scraper.py main --conference, lines 476-492
PeopleMainConference ==
    /\ unit = "people.main"
    /\ pc = "call"
    /\ inp[1].mode = "conference"
    /\ \E conf_id \in {<<"3", "1">>}, outcome \in ConferenceOutcomes :
          LET records == scrape_conference(outcome)
              asked == ConferenceRequests(<<[op |-> "makedirs"]>>, conf_id, outcome)
          IN  /\ loc' = [all_records |-> records, i |-> 1, conferences |-> <<>>]
              /\ log' = IF records /= <<>> THEN Save(asked, records)
                        ELSE Append(asked, [op |-> "print"])
              /\ inp' = Append(inp, outcome)
    /\ pc' = "done"
    /\ UNCHANGED unit

\* people_scraper.py main without --all and --conference, lines 494-496
PeopleMainHelp ==
    /\ unit = "people.main"
    /\ pc = "call"
    /\ inp[1].mode = "none"
    /\ log' = <<[op |-> "makedirs"], [op |-> "print"]>>
    /\ pc' = "done"
    /\ UNCHANGED <<unit, loc, inp>>

EntryNext ==
    \/ WorkHistoryMainMissing \/ WorkHistoryMain \/ WorkHistoryMainSave
    \/ ChurchFromWorkHistoryJson
    \/ PeopleMainMissing \/ PeopleMainAll \/ PeopleMainConference \/ PeopleMainHelp
    \/ MultiError \/ PastorIteration \/ ChurchIteration
    \/ PeopleAllConference

SpecEntry == EntryInit /\ [][EntryNext]_vars

(***************************************************************************)
(* Claims about the writers                                                *)
(***************************************************************************)
CsvUnits ==
    {"ChurchScraper.save_to_csv", "WorkHistoryScraper.save_to_csv",
     "UMDataScraper.save_to_csv", "MegachurchScraper.save_to_csv"}

\* a CSV writer has been called with a list that holds a record
CsvWritten == unit \in CsvUnits /\ loc.calls >= 1 /\ inp.records /= <<>>

\* the records are arrays, not objects (people endpoint only)
ListRecords == unit = "UMDataScraper.save_to_csv" /\ inp.records[1].t = "list"

\* the records passed, as dicts
RecordDicts ==
    [i \in 1..Len(inp.records) |->
        IF unit = "UMDataScraper.save_to_csv"
        THEN (IF inp.records[i].t = "dict" THEN inp.records[i].v ELSE <<>>)
        ELSE inp.records[i]]

\* the keys found in any record passed
RecordKeys == UNION {DOMAIN RecordDicts[i] : i \in 1..Len(inp.records)}

\* the first line of the file, as csv.reader reads it
Header == CsvRows(loc.file.v)[1]

\* the declared main fields of the writer of `unit`
MainFields ==
    CASE unit = "ChurchScraper.save_to_csv" ->
           <<<<"C", "h", "u", "r", "c", "h", "I", "d">>, <<"U", "R", "L">>, <<"C", "h", "u", "r", "c", "h", "N", "a", "m", "e">>, <<"Q", "u", "i", "c", "k", "F", "a", "c", "t", "s", "Y", "e", "a", "r">>>>
      [] unit = "WorkHistoryScraper.save_to_csv" ->
           <<<<"G", "C", "F", "A", "I", "d">>, <<"P", "a", "s", "t", "o", "r", "U", "R", "L">>, <<"N", "a", "m", "e">>>>
      [] unit = "UMDataScraper.save_to_csv" -> <<>>
      [] unit = "MegachurchScraper.save_to_csv" ->
           <<<<"c", "h", "u", "r", "c", "h", "_", "n", "a", "m", "e">>, <<"c", "h", "u", "r", "c", "h", "_", "u", "r", "l">>, <<"c", "i", "t", "y">>, <<"s", "t", "a", "t", "e">>,
             <<"s", "i", "z", "e">>, <<"d", "e", "n", "o", "m", "i", "n", "a", "t", "i", "o", "n">>>>

\* seq is in ascending order, no element twice
Ascending(seq) == \A i \in 1..Len(seq) - 1 : StrLess(seq[i], seq[i + 1])

\* header is the main fields, in their order, and then keys \ main fields
\* in ascending order
MainThenSorted(header, main_fields, keys) ==
    /\ Len(header) >= Len(main_fields)
    /\ SubSeq(header, 1, Len(main_fields)) = main_fields
    /\ LET rest == SubSeq(header, Len(main_fields) + 1, Len(header))
       IN  /\ Range(rest) = keys \ Range(main_fields)
           /\ Ascending(rest)

\* no name is twice in the header
NoDuplicate(header) ==
    \A i, j \in 1..Len(header) : header[i] = header[j] => i = j

\* C14 as stated: for a list that holds a record, the header of each CSV
\* writer is its main fields in their declared order and then all other
\* keys found in any record in lexicographic order; it holds every key of
\* every record once.
C14_HeaderMainThenRecordKeys ==
    CsvWritten
        => /\ MainThenSorted(Header, MainFields, RecordKeys)
           /\ RecordKeys \subseteq Range(Header)
           /\ NoDuplicate(Header)

\* the keys of the work history entries of the records
EntryKeys ==
    UNION {UNION {DOMAIN inp.records[i][<<"W", "o", "r", "k", "H", "i", "s", "t", "o", "r", "y">>].v[j].v :
                    j \in 1..Len(inp.records[i][<<"W", "o", "r", "k", "H", "i", "s", "t", "o", "r", "y">>].v)} :
             i \in {k \in 1..Len(inp.records) :
                       <<"W", "o", "r", "k", "H", "i", "s", "t", "o", "r", "y">> \in DOMAIN inp.records[k]}}

\* a record of the people endpoint has a GCFAId that is not empty
SomeGCFAId ==
    \E i \in 1..Len(inp.records) :
        /\ <<"G", "C", "F", "A", "I", "d">> \in DOMAIN RecordDicts[i]
        /\ RecordDicts[i][<<"G", "C", "F", "A", "I", "d">>] \notin {PyStr(<<>>), PyNone}

\* the keys that are the columns after the main fields
ColumnKeys ==
    CASE unit = "WorkHistoryScraper.save_to_csv" -> EntryKeys
      [] unit = "UMDataScraper.save_to_csv" ->
           RecordKeys \cup (IF SomeGCFAId THEN { <<"U", "R", "L">> } ELSE {})
      [] unit = "MegachurchScraper.save_to_csv" -> {}
      [] unit = "ChurchScraper.save_to_csv" -> RecordKeys

\* C14 amended: for a list that holds a record, the header is the writer's
\* main fields in their declared order and then, in lexicographic order,
\* the other keys of the rows written: the keys of the records (church),
\* the keys of the work history entries, the record's URL going under
\* PastorURL and its keys WorkHistory and Error under no column (work
\* history), the keys of the records and URL when a record has a GCFAId,
\* with no main fields (people, records that are objects); no name is twice
\* in the header.  Records that are arrays are written without a header.
C14_HeaderMainThenRowKeys ==
    CsvWritten
        => IF ListRecords
           THEN CsvRows(loc.file.v)
                  = [i \in 1..Len(inp.records) |->
                       [j \in 1..Len(inp.records[i].v) |-> inp.records[i].v[j].v]]
           ELSE /\ MainThenSorted(Header, MainFields, ColumnKeys)
                /\ NoDuplicate(Header)

\* the church writer has written two records with different facts
C14_Witness ==
    /\ unit = "ChurchScraper.save_to_csv"
    /\ loc.calls = 1
    /\ Len(inp.records) = 2
    /\ Header = <<<<"C", "h", "u", "r", "c", "h", "I", "d">>, <<"U", "R", "L">>, <<"C", "h", "u", "r", "c", "h", "N", "a", "m", "e">>, <<"Q", "u", "i", "c", "k", "F", "a", "c", "t", "s", "Y", "e", "a", "r">>,
                  <<"A", "t", "t", "e", "n", "d", "a", "n", "c", "e">>, <<"B", "u", "d", "g", "e", "t">>, <<"H", "C", "I", "_", "D", "a", "t", "a", "A", "v", "a", "i", "l", "a", "b", "l", "e">>,
                  <<"M", "e", "m", "b", "e", "r", "s">>>>


\* the file that the writer of unit u leaves at a path that held no file
Written(u, records) ==
    CASE u = "ChurchScraper.save_to_csv" -> ChurchSaveToCsv(records, NoFile)
      [] u = "ChurchScraper.save_to_json" -> ChurchSaveToJson(records, NoFile)
      [] u = "WorkHistoryScraper.save_to_csv" -> WorkHistorySaveToCsv(records, NoFile)
      [] u = "UMDataScraper.save_to_csv" -> PeopleSaveToCsv(records, NoFile)
      [] u = "UMDataScraper.save_to_json" -> PeopleSaveToJson(records, NoFile)
      [] u = "MegachurchScraper.save_to_csv" -> MegaSaveToCsv(records, NoFile)

\* C15 as stated: after a call of a writer, and after a second call with
\* the same records, the target file is what the records alone determine
\* (what the writer leaves at a fresh path), whatever the file held before,
\* for every record list, the empty one too.
C15_WholesaleOverwrite ==
    (unit \in SaveUnits /\ loc.calls >= 1)
        => loc.file = Written(unit, inp.records)

\* C15 amended: after a call of save_to_json, and of save_to_csv with a
\* list that holds a record, the target file exists and is what the records
\* alone determine, whatever it held before, and a second call with the
\* same records leaves the same file; save_to_csv with the empty list
\* leaves the target path as it was.
C15_OverwriteUnlessEmptyCsv ==
    (unit \in SaveUnits /\ loc.calls >= 1)
        => IF unit \in CsvUnits /\ inp.records = <<>>
           THEN loc.file = inp.file
           ELSE loc.file /= NoFile /\ loc.file = Written(unit, inp.records)

\* a CSV writer has been called twice with records over a file that
\* existed, and the file has changed
C15_Witness ==
    /\ unit = "MegachurchScraper.save_to_csv"
    /\ loc.calls = 2
    /\ Len(inp.records) = 2
    /\ inp.file /= NoFile
    /\ loc.file /= inp.file


\* a value as a string: '' for None, str(value) otherwise
AsString(value) == IF value = PyNone THEN <<>> ELSE StrOf(value)

\* the data rows that csv.DictReader reads from the target file
ReadBack == DictReaderRows(loc.file.v)

\* the row read holds, under the keys of `record`, its values as strings
SameValues(row, record) ==
    \A k \in DOMAIN record :
        /\ k \in DOMAIN row
        /\ IF record[k].t = "list" /\ record[k].v /= <<>>
           THEN \A j \in 1..Len(record[k].v) :
                   record[k].v[j].t = "str" => Contains(row[k].v, record[k].v[j].v)
           ELSE row[k] = PyStr(AsString(record[k]))

RowsOfPastor(record) ==
    LET three == (<<"G", "C", "F", "A", "I", "d">>
                     :> GetOr(record, <<"G", "C", "F", "A", "I", "d">>, PyStr(<<>>)))
                 @@ (<<"P", "a", "s", "t", "o", "r", "U", "R", "L">>
                     :> GetOr(record, <<"U", "R", "L">>, PyStr(<<>>)))
                 @@ (<<"N", "a", "m", "e">>
                     :> GetOr(record, <<"N", "a", "m", "e">>, PyStr(<<>>)))
        key == <<"W", "o", "r", "k", "H", "i", "s", "t", "o", "r", "y">>
        entries == IF key \in DOMAIN record THEN record[key].v ELSE <<>>
    IN  IF entries = <<>> THEN <<three>>
        ELSE [j \in 1..Len(entries) |-> entries[j].v @@ three]

\* the rows that go to the file, as dicts
RowsWritten ==
    CASE unit = "WorkHistoryScraper.save_to_csv" ->
           Concat([i \in 1..Len(inp.records) |-> RowsOfPastor(inp.records[i])])
      [] unit = "UMDataScraper.save_to_csv" ->
           [i \in 1..Len(inp.records) |-> PeopleFlatRecord(inp.records[i]).v]
      [] unit \in {"ChurchScraper.save_to_csv", "MegachurchScraper.save_to_csv"} ->
           inp.records

IsRequest(e) == e.op \in {"get", "initial", "post"}
IsSave(e) == e.op = "save"

\* the call is one of an entry point that needs its input file (the
\* work history main; the people main with --all) and the file is missing
InputMissing ==
    /\ "input" \in DOMAIN inp[1]
    /\ inp[1].input = NoFile
    /\ "mode" \in DOMAIN inp[1] => inp[1].mode = "all"

\* C17: when the input file that an entry point needs is missing, the
\* entry point prints a message and returns; it issues no HTTP request and
\* writes no output file.
C17_MissingInputReturnsEarly ==
    InputMissing
        => /\ \A k \in 1..Len(log) : ~IsRequest(log[k]) /\ ~IsSave(log[k])
           /\ pc \in {"call", "done"}
           /\ pc = "done" => Last(log).op = "print"
           /\ loc = <<>>

\* the people main has returned from --all without conferences.json
C17_Witness ==
    /\ unit = "people.main"
    /\ InputMissing
    /\ pc = "done"
    /\ log = <<[op |-> "makedirs"], [op |-> "print"]>>

\* the work history main has returned without its input file
C17_WitnessWorkHistory ==
    /\ unit = "work_history.main"
    /\ InputMissing
    /\ pc = "done"
    /\ log = <<[op |-> "print"]>>


\* the URLs that the routine extracts from its input file, before the cut:
\* the non-empty URLs of the people in file order (work history), the
\* Appointment_URLs that hold 'church?', each once, in ascending order
\* (church)
ExtractedUrls ==
    LET data == inp[1].input.v
    IN  IF "csv" \in DOMAIN inp[1]
        THEN LET at == {i \in 1..Len(data) :
                          /\ <<"U", "R", "L">> \in DOMAIN data[i]
                          /\ data[i][<<"U", "R", "L">>] \notin {PyStr(<<>>), PyNone}}
                 ordered == Ordered(at)
             IN  [k \in 1..Len(ordered) |-> data[ordered[k]][<<"U", "R", "L">>].v]
        ELSE WorkHistoryJsonUrls(data, NoInt)

\* the URLs requested so far, in order
Requested ==
    LET gets == SelectSeq(log, IsGet)
    IN  [k \in 1..Len(gets) |-> gets[k].url]

\* a routine with a max_records argument runs on a file that exists
Limited ==
    /\ unit \in {"scrape_multiple_pastors", "scrape_multiple_churches"}
    /\ "limit" \in DOMAIN inp[1]

\* C18: with max_records = n >= 0, scrape_from_people_json and
\* scrape_from_work_history_json scrape the first n of the extracted URLs
\* and no other: at most n; without max_records (None) they scrape all.
C18_AtMostLimitUrls ==
    Limited
        => LET n == inp[1].limit
               first == IF n = NoInt \/ n >= Len(ExtractedUrls) THEN ExtractedUrls
                        ELSE SubSeq(ExtractedUrls, 1, n)
           IN  /\ loc.urls = first
               /\ Len(Requested) <= Len(first)
               /\ Requested = SubSeq(first, 1, Len(Requested))
               /\ n /= NoInt => Len(Requested) <= n


(***************************************************************************)
(* The two drivers of UMDataScraper that catch every exception of a page   *)
(* (people_scraper.py 156-210 and 212-262)                                 *)
(***************************************************************************)
DriversInit == AjaxInit \/ HtmlInit
DriversNext == AjaxNext \/ HtmlNext
SpecDrivers == DriversInit /\ [][DriversNext]_vars

(***************************************************************************)
(* Claims about a page that fails inside a driver                          *)
(***************************************************************************)
\* C19: in the offset loop a transport or parse error on one page counts as
\* zero results for that page and the run continues with the next page: the
\* loop goes on at the next offset with the records it had.
C19_ErrorPageContinues ==
    (unit = "ajax" /\ inp /= <<>> /\ Last(inp).kind = "error") =>
        /\ pc = "loop"
        /\ loc.start = Last(AjaxRequests).start + records_per_page
        /\ loc.all_records = PagesUpTo(Len(inp) - 1)

\* the records the answer to request i of a driver held
DriverPageRecords(i) ==
    IF unit = "ajax"
    THEN (IF inp[i].kind \in {"data", "badtotal"}
          THEN [j \in 1..inp[i].n |-> Gets(log)[i].start + j - 1] ELSE <<>>)
    ELSE (IF inp[i].kind = "page" THEN _scrape_html_table(inp[i]) ELSE <<>>)

\* the records of requests 1..i of a driver, in order
RECURSIVE DriverPagesUpTo(_)
DriverPagesUpTo(i) ==
    IF i = 0 THEN <<>> ELSE DriverPagesUpTo(i - 1) \o DriverPageRecords(i)

\* the next link of answer i is one that urljoin rejects
BadNextLink(i) ==
    /\ inp[i].kind = "page"
    /\ LET next_link == IF inp[i].paginate /\ ~inp[i].button.disabled
                        THEN inp[i].button.href ELSE inp[i].next_a
       IN  next_link = HtmlBadHref

\* request i raised before the records of its page were read
FailedEarly(i) == inp[i].kind = "error"

\* request i raised after the records of its page were appended
FailedLate(i) ==
    IF unit = "ajax" THEN inp[i].kind = "badtotal" ELSE BadNextLink(i)

\* C20 (as claimed): when page k of the offset loop or of the next-link loop
\* fails with any exception the driver does not raise, and what it returns is
\* exactly the records of pages 1..k-1, in order.
C20_FailedPageReturnsEarlierPages ==
    unit \in {"ajax", "html"} =>
        \A k \in 1..Len(inp) :
            (FailedEarly(k) \/ FailedLate(k)) =>
                /\ pc = "done"
                /\ Len(inp) = k
                /\ loc.all_records = DriverPagesUpTo(k - 1)

\* C20 (amended): a page k that fails ends the driver without raising and
\* without a further request; the result is the records of pages 1..k-1 when
\* the fetch or the decoding of page k raised, and the records of pages 1..k
\* when the exception came after the records of page k had been appended
\* (a recordsTotal that is no number, a next link that urljoin rejects).
C20_FailedPageEndsDriver ==
    unit \in {"ajax", "html"} =>
        \A k \in 1..Len(inp) :
            /\ FailedEarly(k) =>
                  /\ pc = "done"
                  /\ Len(Gets(log)) = k /\ Len(inp) = k
                  /\ loc.all_records = DriverPagesUpTo(k - 1)
            /\ FailedLate(k) =>
                  /\ pc = "done"
                  /\ Len(Gets(log)) = k /\ Len(inp) = k
                  /\ loc.all_records = DriverPagesUpTo(k)

\* C20 witness: the offset loop took a full first page of a larger table, its
\* second request raised, and the loop is over with the 100 records of page 1
C20_Witness ==
    /\ unit = "ajax"
    /\ pc = "done"
    /\ Len(inp) = 2
    /\ inp[1].kind = "data" /\ inp[1].n = records_per_page
    /\ inp[2].kind = "error"
    /\ loc.all_records = [j \in 1..records_per_page |-> j - 1]


(***************************************************************************)
(* Claims about the megachurch page loop                                   *)
(***************************************************************************)
\* C21: scrape_all_pages issues one page-count request and then requests the
\* listing pages 1, 2, ..., M once each in ascending order, M being the value
\* get_total_pages returned; its result is the concatenation of the record
\* lists of the pages in page order.
C21_MegaPagesInOrder ==
    (unit = "mega" /\ pc /= "count") =>
        LET gets == Gets(log)
            M == loc.total_pages
        IN  /\ Len(gets) >= 1
            /\ gets[1].what = "count"
            /\ \A i \in 2..Len(gets) :
                  gets[i].what = "page" /\ gets[i].page = i - 1
            /\ Len(gets) <= M + 1
            /\ pc = "done" => Len(gets) = M + 1
            /\ Len(inp) = Len(gets) - 1
            /\ loc.all_churches = PagesUpTo(Len(inp))

\* C21 witness: a listing of three pages was read to its end and the first
\* and the last page gave a church
C21_Witness ==
    /\ unit = "mega"
    /\ pc = "done"
    /\ loc.total_pages = 3
    /\ Len(Gets(log)) = 4
    /\ inp[1].kind = "table" /\ inp[2].kind = "error" /\ inp[3].kind = "table"
    /\ Len(loc.all_churches) = 2


(***************************************************************************)
(* MegachurchScraper.get_total_pages on its own  (mega/scraper.py 34-92)   *)
(***************************************************************************)
\* what a "Page N of M" search may find: no match, or its M
TotalPagesMatches == {NoInt} \cup (0..MaxPages)

\* the responses to the page-count request: the request or the parsing
\* raises, or every search of the function finds what the page holds
TotalPagesResponses ==
    {[kind |-> "error"]}
      \cup {[kind |-> "ok", raw |-> r, text |-> t, div |-> d, links |-> l] :
                r \in TotalPagesMatches, t \in TotalPagesMatches,
                d \in TotalPagesMatches, l \in SUBSET (1..MaxPages)}

TotalPagesInit ==
    /\ unit = "get_total_pages"
    /\ pc = "call"
    /\ \E resp \in TotalPagesResponses : inp = <<resp>>
    /\ loc = NoInt
    /\ log = <<>>

\* self.get_total_pages()
GetTotalPages ==
    /\ unit = "get_total_pages"
    /\ pc = "call"
    /\ loc' = get_total_pages(inp[1])
    /\ log' = Append(log, [op |-> "get", what |-> "count"])
    /\ pc' = "done"
    /\ UNCHANGED <<unit, inp>>

SpecTotalPages == TotalPagesInit /\ [][GetTotalPages]_vars

(***************************************************************************)
(* Claims about get_total_pages                                            *)
(***************************************************************************)
\* C22 (as claimed): get_total_pages takes the M of the first "Page N of M"
\* match in the response text (response.text, the raw HTML) if there is one,
\* otherwise the match inside the pagination widget, otherwise the largest
\* numeral among the 'page-numbers' links, otherwise 1; it returns 1 when the
\* request or the parsing raises.
C22_TotalPagesFourLevels ==
    (unit = "get_total_pages" /\ pc = "done") =>
        LET resp == inp[1]
        IN  /\ resp.kind = "error" => loc = 1
            /\ resp.kind = "ok" =>
                  /\ resp.raw /= NoInt => loc = resp.raw
                  /\ (resp.raw = NoInt /\ resp.div /= NoInt) => loc = resp.div
                  /\ (resp.raw = NoInt /\ resp.div = NoInt /\ resp.links /= {})
                        => \A n \in resp.links : n <= loc
                  /\ (resp.raw = NoInt /\ resp.div = NoInt /\ resp.links = {})
                        => loc = 1

\* C22 (amended): the precedence has one more level: after the raw HTML and
\* before the pagination widget comes the match in the text of the parsed
\* document.
C22_TotalPagesFiveLevels ==
    (unit = "get_total_pages" /\ pc = "done") =>
        LET resp == inp[1]
            none(S) == \A f \in S : resp[f] = NoInt
        IN  /\ resp.kind = "error" => loc = 1
            /\ resp.kind = "ok" =>
                  /\ resp.raw /= NoInt => loc = resp.raw
                  /\ (none({"raw"}) /\ resp.text /= NoInt) => loc = resp.text
                  /\ (none({"raw", "text"}) /\ resp.div /= NoInt)
                        => loc = resp.div
                  /\ (none({"raw", "text", "div"}) /\ resp.links /= {})
                        => /\ loc \in resp.links
                           /\ \A n \in resp.links : n <= loc
                  /\ (none({"raw", "text", "div"}) /\ resp.links = {})
                        => loc = 1

\* C22 witness: the raw HTML has no match, the parsed text says 3 pages, the
\* widget says 2 and the links go up to 1: the function returned 3
C22_Witness ==
    /\ unit = "get_total_pages"
    /\ pc = "done"
    /\ inp[1].kind = "ok"
    /\ inp[1].raw = NoInt /\ inp[1].text = 3 /\ inp[1].div = 2
    /\ inp[1].links = {1}
    /\ loc = 3


(***************************************************************************)
(* Claims about the next-link loop                                         *)
(***************************************************************************)
\* the pages the next-link loop has requested
HtmlFetched == Len(Gets(log))

\* answer i is a page on which _find_next_page_link finds no link
NoNextLink(i) ==
    inp[i].kind = "page" /\ NoLink(_find_next_page_link(inp[i]))

\* C23: scrape_all_pages_html follows the next link until none remains or the
\* page cap is hit: it stops right after the first page without a next link,
\* and with max_pages = n it fetches at most n pages.
C23_NextLinkUntilNoneOrCap ==
    unit = "html" =>
        /\ \A i \in 1..Len(inp) :
              NoNextLink(i) => (pc = "done" /\ Len(inp) = i /\ HtmlFetched = i)
        /\ loc.max_pages /= NoInt => HtmlFetched <= loc.max_pages

\* the same statement for every cap but 0
C23_ExceptCapZero ==
    (unit = "html" /\ loc.max_pages /= 0) => C23_NextLinkUntilNoneOrCap


(***************************************************************************)
(* The statistics entry point  (stats.py 391-465,  python stats.py)        *)
(* The module does not compile: the  try:  of line 432 is followed at      *)
(* line 441 by a statement at the indentation of the  try  with no except  *)
(* or finally clause in between (the block of lines 426-440 is repeated at *)
(* 440-453, its first copy cut inside the call of line 436).  CPython      *)
(* compiles a whole file before it runs its first statement, so that the   *)
(* SyntaxError is raised before any statement of main.                     *)
(***************************************************************************)
\* --year
StatsYears == {"2021", "2022", "2023", "2024"}

\* the entries of ../data/conferences.json
StatsConferencePool ==
    {[id |-> "", name |-> "A"], [id |-> "1", name |-> "A"],
     [id |-> "2", name |-> "B"]}

\* ../data/conferences.json before the run: missing, or a list of conferences
StatsConferenceFiles ==
    {NoFile} \cup {JsonFile(l) : l \in SeqUpTo(StatsConferencePool, MaxUnits)}

StatsMainInit ==
    /\ unit = "stats_main"
    /\ pc = "start"
    /\ \E year \in StatsYears, file \in StatsConferenceFiles :
          inp = <<[year |-> year, conferences |-> file]>>
    /\ loc = <<>>
    /\ log = <<>>

\* python stats.py: the compilation of the file raises SyntaxError("expected
\* 'except' or 'finally' block") at line 441; no statement has run
StatsMainCompile ==
    /\ unit = "stats_main"
    /\ pc = "start"
    /\ pc' = "raised"
    /\ UNCHANGED <<unit, loc, inp, log>>

SpecStatsMain == StatsMainInit /\ [][StatsMainCompile]_vars

(***************************************************************************)
(* Claims about the statistics entry point                                 *)
(***************************************************************************)
\* what the entry point did: the scrapes and the saves of its log, in order
StatsMainSteps ==
    LET step(e) == e.op \in {"scrape_statistics_page", "save_to_json",
                             "scrape_districts_from_conferences"}
        steps == SelectSeq(log, step)
    IN  [i \in 1..Len(steps) |-> steps[i].op]

\* C24: the statistics entry point performs, in this order and each exactly
\* once, one scrape of the statistics page, one save of its result and then
\* one scrape of the districts from conferences.json.
C24_ScrapeSaveThenDistrictsOnce ==
    (unit = "stats_main" /\ pc /= "start" /\ inp[1].conferences /= NoFile) =>
        StatsMainSteps = <<"scrape_statistics_page", "save_to_json",
                           "scrape_districts_from_conferences">>


(***************************************************************************)
(* The entry points that scrape and then persist                           *)
(*   people_scraper.py main, work_history_scraper.py main,                 *)
(*   mega/scraper.py main (lines 238-253)                                  *)
(***************************************************************************)
\* mega/scraper.py main, lines 245-253, after scrape_all_pages has returned
MegaMainSave ==
    /\ unit = "mega"
    /\ pc = "done"
    /\ log' = IF loc.all_churches /= <<>> THEN Save(log, loc.all_churches)
              ELSE Append(log, [op |-> "print"])
    /\ pc' = "returned"
    /\ UNCHANGED <<unit, loc, inp>>

MainsInit == EntryInit \/ MegaInit
MainsNext == EntryNext \/ MegaNext \/ MegaMainSave
SpecMains == MainsInit /\ [][MainsNext]_vars

(***************************************************************************)
(* Claims about the order of scraping and persistence                      *)
(***************************************************************************)
\* the people that the answers 2..k of a people run listed
RECURSIVE PeopleListed(_)
PeopleListed(k) ==
    IF k <= 1 THEN 0
    ELSE PeopleListed(k - 1) + (IF inp[k].kind = "list" THEN inp[k].n ELSE 0)

\* the number of records that the units fetched so far in the run gave
RunRecords ==
    IF unit = "mega" THEN Len(PagesUpTo(Len(inp)))
    ELSE IF unit \in {"work_history.main", "scrape_multiple_pastors"}
    THEN Len(SelectSeq(log, IsRequest))
    ELSE PeopleListed(Len(inp))

SpecAjaxFair == AjaxInit /\ [][AjaxNext]_vars /\ WF_vars(AjaxNext)

(***************************************************************************)
(* Claims about the termination of the offset loop                         *)
(***************************************************************************)
\* the largest recordsTotal the server has reported in the run (0 if none)
RECURSIVE LargestTotal(_)
LargestTotal(k) ==
    IF k = 0 THEN 0
    ELSE LET before == LargestTotal(k - 1)
             total == IF inp[k].kind = "data" THEN inp[k].total ELSE 0
         IN  IF total > before THEN total ELSE before

\* ceil(T / records_per_page) + 1
RequestBound(T) == (T + records_per_page - 1) \div records_per_page + 1

\* the loop has issued no more than the requests its reported totals allow
WithinRequestBound ==
    unit = "ajax" => Len(AjaxRequests) <= RequestBound(LargestTotal(Len(inp)))

\* C26: scrape_all_pages_ajax terminates whenever the reported recordsTotal
\* stays below a bound T, after at most ceil(T/100) + 1 requests, whatever
\* number of records the responses carry.
C26_AjaxTerminatesWithinBound ==
    /\ [] WithinRequestBound
    /\ <> (unit = "ajax" /\ pc = "done")

\* C26 witness: the server reported 200 records and answered half pages; the
\* loop is over after ceil(200/100) + 1 = 3 requests
C26_Witness ==
    /\ unit = "ajax"
    /\ pc = "done"
    /\ LargestTotal(Len(inp)) = 4 * HalfPage
    /\ Len(AjaxRequests) = RequestBound(4 * HalfPage)
    /\ \A k \in 1..2 : inp[k].kind = "data" /\ inp[k].n = HalfPage


(***************************************************************************)
(* The next-link loop on a fixed site  (people_scraper.py 212-262)         *)
(* A site answers every URL with one page, the same at every request.      *)
(* inp[1] is the site; the answers the loop received follow it.  The loop  *)
(* is called without a page cap.  The model records the first MaxFollow   *)
(* requests in full, which is more than the site has pages: a loop that is *)
(* still running then has requested some URL twice.  Of the requests after *)
(* these the model keeps the URL and the parity of the page counter only.  *)
(***************************************************************************)
\* what a site may answer to a URL: an error, or a page with a table and a
\* next button
SitePages ==
    {[kind |-> "error"]}
      \cup {[kind |-> "page", has_table |-> TRUE, table |-> t,
             paginate |-> TRUE, button |-> [disabled |-> d, href |-> h],
             next_a |-> Absent] :
               t \in HtmlPageTables, d \in BOOLEAN, h \in HtmlUrls \cup {NoStr}}

SiteInit ==
    /\ unit = "html_site"
    /\ pc = "loop"
    /\ loc = HtmlLocals(HtmlBaseUrl, NoInt)
    /\ \E site \in [HtmlUrls -> SitePages] : inp = <<site>>
    /\ log = <<>>

\* one iteration of the loop: the site answers the GET of current_url
SiteIteration ==
    /\ unit = "html_site"
    /\ pc = "loop"
    /\ ~HtmlCapped(loc.max_pages, loc.page)
    /\ loc.page <= MaxFollow
    /\ LET answer == inp[1][loc.current_url]
       IN  IF answer.kind = "error" THEN HtmlError ELSE HtmlPage(answer)
    /\ UNCHANGED unit

\* page += 1 (line 258) past the recorded requests: the counter goes to and
\* fro between MaxFollow + 1 and MaxFollow + 2
SitePageBeyond(page) ==
    IF page = MaxFollow + 1 THEN MaxFollow + 2 ELSE MaxFollow + 1

\* one iteration of the loop after the recorded requests: all_records, inp
\* and log are no longer extended
SiteIterationBeyond ==
    /\ unit = "html_site"
    /\ pc = "loop"
    /\ ~HtmlCapped(loc.max_pages, loc.page)
    /\ loc.page > MaxFollow
    /\ LET answer == inp[1][loc.current_url]
           next_link == _find_next_page_link(answer)
       IN  IF answer.kind = "error" \/ NoLink(next_link) \/ HtmlJoinRaises(next_link)
           THEN pc' = "done" /\ UNCHANGED loc
           ELSE /\ pc' = "loop"
                /\ loc' = [loc EXCEPT !.current_url = HtmlJoin(@, next_link),
                                      !.page = SitePageBeyond(@)]
    /\ UNCHANGED <<unit, inp, log>>

SiteNext == SiteIteration \/ SiteIterationBeyond

SpecSite == SiteInit /\ [][SiteNext]_vars /\ WF_vars(SiteNext)

(***************************************************************************)
(* Claims about the termination of the next-link loop                      *)
(***************************************************************************)
\* the URLs the loop has requested, in order
SiteRequested == [i \in 1..Len(Gets(log)) |-> Gets(log)[i].url]

\* a loop that the model has followed to its bound has requested a URL twice
SiteBoundMeansRevisit ==
    (unit = "html_site" /\ pc = "loop" /\ loc.page > MaxFollow) =>
        \E i \in 1..Len(SiteRequested) : \E j \in 1..Len(SiteRequested) :
            i < j /\ SiteRequested[i] = SiteRequested[j]

\* C27: scrape_all_pages_html called without a page cap terminates on every
\* site with finitely many distinct pages, also when the next link of a page
\* points to the page itself or to a page already visited.
C27_HtmlTerminatesOnFiniteSite ==
    <> (unit = "html_site" /\ pc = "done")


(***************************************************************************)
(* Claims about the offset loop against a conforming server                *)
(***************************************************************************)
\* what a conforming server holding T records answers to request k: the
\* records from the offset on, records_per_page at most, and recordsTotal = T
ConformingAnswer(T, k) ==
    LET s == AjaxRequests[k].start
        left == IF T > s THEN T - s ELSE 0
    IN  [kind |-> "data",
         n |-> IF left < AjaxRequests[k].length THEN left ELSE AjaxRequests[k].length,
         total |-> T]

\* every answer of the run so far is the one of a conforming server of T
Conforming(T) == \A k \in 1..Len(inp) : inp[k] = ConformingAnswer(T, k)

\* the records 0 .. n-1 of the server, in server order
ServerRecords(n) == [i \in 1..n |-> i - 1]

\* C28: against a conforming DataTables server holding T records
\* scrape_all_pages_ajax returns all T records, each once and in server
\* order, with requests draw = k, start = 100*(k-1), length = 100 for
\* k = 1, 2, ...
C28_ConformingServerGivesAll ==
    unit = "ajax" =>
        \A T \in AjaxTotals :
            Conforming(T) =>
                /\ \A k \in 1..Len(AjaxRequests) :
                      /\ AjaxRequests[k].draw = k
                      /\ AjaxRequests[k].start = 100 * (k - 1)
                      /\ AjaxRequests[k].length = 100
                /\ pc = "loop" => /\ 100 * Len(inp) < T \/ inp = <<>>
                                  /\ loc.all_records = ServerRecords(100 * Len(inp))
                /\ pc = "done" => loc.all_records = ServerRecords(T)

\* C28 witness: a conforming server of 250 records was read in three
\* requests, the last one answered with 50 records
C28_Witness ==
    /\ unit = "ajax"
    /\ pc = "done"
    /\ Conforming(5 * HalfPage)
    /\ Len(AjaxRequests) = 3
    /\ inp[3].n = HalfPage
    /\ loc.all_records = ServerRecords(5 * HalfPage)


(***************************************************************************)
(* Claims about a disabled next button                                     *)
(***************************************************************************)
\* answer i is a page whose pagination widget holds a disabled next button
DisabledNext(i) ==
    /\ inp[i].kind = "page"
    /\ inp[i].paginate
    /\ inp[i].button /= NoDict
    /\ inp[i].button.disabled

\* C29: when the next button of the DataTables pagination widget carries the
\* 'disabled' class, _find_next_page_link returns no link, and
\* scrape_all_pages_html takes the page for the last one and fetches nothing
\* further.
C29_DisabledNextEndsPaging ==
    unit = "html" =>
        \A i \in 1..Len(inp) :
            DisabledNext(i) =>
                /\ _find_next_page_link(inp[i]) = NoStr
                /\ pc = "done"
                /\ Len(inp) = i /\ HtmlFetched = i

\* the same statement for the disabled buttons that the search for a link
\* reading Next does not find, or finds without an href
C29_ExceptButtonFoundAsNextLink ==
    unit = "html" =>
        \A i \in 1..Len(inp) :
            (DisabledNext(i) /\ inp[i].next_a \in {Absent, NoStr}) =>
                /\ _find_next_page_link(inp[i]) = NoStr
                /\ pc = "done"
                /\ Len(inp) = i /\ HtmlFetched = i


(***************************************************************************)
(* Claims about the church URLs taken from a work history file             *)
(***************************************************************************)
\* the strings that the entries of the work history file hold under
\* Appointment_URL
AppointmentUrls ==
    LET data == inp[1].input.v
        lists == {data[i][ChurchStr.work_history].v :
                    i \in {k \in 1..Len(data) :
                             ChurchStr.work_history \in DOMAIN data[k]}}
        entries == UNION {{l[j].v : j \in 1..Len(l)} : l \in lists}
        holding == {e \in entries : ChurchStr.appointment_url \in DOMAIN e}
    IN  {e[ChurchStr.appointment_url].v : e \in holding}

\* the string has 'church?' in it
HasChurchQuery(url) ==
    \E at \in 1..Len(url) :
        /\ at + Len(ChurchStr.church_q) - 1 <= Len(url)
        /\ SubSeq(url, at, at + Len(ChurchStr.church_q) - 1) = ChurchStr.church_q

\* C30: scrape_from_work_history_json requests each distinct church URL at
\* most once however many entries hold it, requests only Appointment_URL
\* values that contain 'church?', and goes through them in ascending
\* lexicographic order.
C30_ChurchUrlsOnceAscending ==
    (unit = "scrape_multiple_churches" /\ "limit" \in DOMAIN inp[1]) =>
        /\ \A k \in 1..Len(Requested) : \A l \in 1..Len(Requested) :
              k < l => /\ Requested[k] /= Requested[l]
                       /\ StrLess(Requested[k], Requested[l])
        /\ \A k \in 1..Len(Requested) :
              Requested[k] \in AppointmentUrls /\ HasChurchQuery(Requested[k])

\* C30 witness: the file names the church with id=7 three times, before the
\* church with church=95; both were requested once, church=95 first
C30_Witness ==
    /\ unit = "scrape_multiple_churches"
    /\ pc = "done"
    /\ "limit" \in DOMAIN inp[1]
    /\ inp[1].input.v = <<WorkHistoryJsonPool[1], WorkHistoryJsonPool[2]>>
    /\ Len(Requested) = 2
    /\ Requested[2] = WorkHistoryJsonPool[1][ChurchStr.work_history].v[1].v[ChurchStr.appointment_url].v

=============================================================================
